---- MODULE Spec2Model ----
(***************************************************************************)
(* State-machine model of sanview (FreeBSD storage array monitor).         *)
(*                                                                         *)
(*   SpecCorrelate : TopologyCorrelator::correlate applied to bounded      *)
(*                   inputs (src/domain/topology.rs)                       *)
(*   SpecGeom      : successive GeomCollector::collect calls               *)
(*                   (src/collectors/geom.rs)                              *)
(*   SpecCache     : MultipathCollector::collect and ZfsCollector::collect *)
(*                   against a clock (src/collectors/multipath.rs, zfs.rs) *)
(*   SpecSes       : SesCollector::collect over bounded enclosure scans    *)
(*                   (src/collectors/ses.rs)                               *)
(*   SpecState     : AppState under set_terminal_width, clone and the      *)
(*                   sampling update (src/ui/state.rs)                     *)
(*   SpecMain      : main() and run_tui() as two threads around the Mutex  *)
(*                   (src/main.rs, src/ui/app.rs); SpecMainFair adds       *)
(*                   fair scheduling                                       *)
(*   SpecSlow      : the collection loop of main() against a clock in      *)
(*                   milliseconds: the slow (VM / jail) cadence            *)
(*                   (src/main.rs)                                         *)
(*   SpecParse     : MultipathCollector::parse_gmultipath_output applied   *)
(*                   to bounded reports (src/collectors/multipath.rs)      *)
(*   SpecZpool     : ZfsCollector::parse_pool_status applied to bounded    *)
(*                   reports (src/collectors/zfs.rs)                       *)
(*   SpecPipeline  : the startup SES scan followed by ticks of             *)
(*                   GeomCollector::collect and correlate (src/main.rs)    *)
(*                                                                         *)
(* Option<T> is modelled as a sequence of length <= 1: None is <<>> and    *)
(* Some(x) is <<x>>.  A HashMap is a function whose DOMAIN is its key set; *)
(* its iteration order is unspecified, so every loop over a HashMap takes  *)
(* an arbitrary permutation of the keys.                                   *)
(***************************************************************************)
EXTENDS Integers, Sequences, FiniteSets, TLC

VARIABLES
    \* ---- TopologyCorrelator::correlate: arguments, result, position
    physical_disks,     \* Vec<PhysicalDisk> argument
    multipath_info,     \* HashMap<String, MultipathInfo> argument
    ses_info,           \* HashMap<String, SesSlotInfo> argument
    zfs_info,           \* HashMap<String, ZfsDriveInfo> argument
    multipath_devices,  \* returned Vec<MultipathDevice>
    standalone_disks,   \* returned Vec<PhysicalDisk>
    unclaimed,          \* disk_map as handed to deduplicate_by_wwn
    cpc,                \* "ready" before the call, "done" after it
    \* ---- GeomCollector: fields, environment, last result
    previous_snapshot,  \* Option<Snapshot>
    geom_result,        \* what the last collect() returned
    geom_taken,         \* the snapshot the last collect() took (Option)
    geom_baseline,      \* previous_snapshot as the last collect() found it
    \* ---- MultipathCollector / ZfsCollector: fields, clock, last call
    now,                \* Instant::now(), in seconds
    multipath_collector,\* [cache, last_update] of the MultipathCollector
    zfs_collector,      \* [cache, last_update] of the ZfsCollector
    refreshed,          \* per collector: the map its last successful refresh built
    last_collect,       \* per collector: record of its last collect() call (Option)
    \* ---- SesCollector::collect: environment and result
    ses_devices,        \* what find_ses_devices returns (None: read_dir failed)
    ses_scans,          \* per enclosure: what its ioctls report
    ses_slot_map,       \* what collect() returned (Option)
    \* ---- AppState behind its Mutex, and the rendering thread's copy
    app_state,          \* the AppState inside Arc<Mutex<AppState>>
    current_state,      \* run_app's clone of it for this frame (Option)
    rpc,                \* run_app's position in its loop
    term_width,         \* the width terminal.size() last reported (Option)
    ticks,              \* number of sampling updates installed so far
    widest,             \* largest history_size in force since the last update
    \* ---- main() and run_tui() as two threads around the Mutex
    spc,                \* position of the sampling (main) thread
    tpc,                \* position of the rendering (TUI) thread
    mutex,              \* which thread holds the lock on the shared state
    sample_no,          \* number of sampling ticks begun
    cur,                \* the sampling thread's locals of the current tick
    caches,             \* per cached collector: the tick of its last refresh
    ses_source,         \* outcome of the one SES collection at startup
    shared,             \* what the shared state holds, by originating tick
    snapshot,           \* run_app's clone of the shared state (Option)
    ticks_at_finish,    \* sample_no when the TUI thread finished (Option)
    \* ---- main(): the cadence of the VM and jail enumeration
    clock,              \* Instant::now(), in ms since the loop was entered
    refresh,            \* args.refresh, in ms
    last_update,        \* Instant of the last fast tick
    last_slow_update,   \* Instant of the last VM and jail enumeration
    lpc,                \* position of main() in its loop
    guard,              \* which thread holds the lock on the shared state
    vms_jails,          \* the tick's local (vms, jails) (Option)
    state_vms_jails,    \* (state.vms, state.jails) in the shared state
    slow_log,           \* what the ticks so far did about VMs and jails
    \* ---- MultipathCollector::parse_gmultipath_output
    gm_output,          \* the lines of the `gmultipath list` report
    gm_parsed,          \* the returned HashMap<String, MultipathInfo> (Option)
    \* ---- ZfsCollector::parse_pool_status
    zpool,              \* the pool argument
    zpool_status,       \* the lines of the `zpool status` report
    pool_drives         \* the returned HashMap<String, ZfsDriveInfo> (Option)

corrVars == <<physical_disks, multipath_info, ses_info, zfs_info,
              multipath_devices, standalone_disks, unclaimed, cpc>>
geomVars == <<previous_snapshot, geom_result, geom_taken, geom_baseline>>
cacheVars == <<now, multipath_collector, zfs_collector, refreshed, last_collect>>
sesVars == <<ses_devices, ses_scans, ses_slot_map>>
stateVars == <<app_state, current_state, rpc, term_width, ticks, widest>>
mainVars == <<spc, tpc, mutex, sample_no, cur, caches, ses_source, shared,
              snapshot, ticks_at_finish>>
slowVars == <<clock, refresh, last_update, last_slow_update, lpc, guard,
              vms_jails, state_vms_jails, slow_log>>
parseVars == <<gm_output, gm_parsed>>
zpoolVars == <<zpool, zpool_status, pool_drives>>
tailVars == <<slowVars, parseVars, zpoolVars>>
laterVars == <<cacheVars, sesVars, stateVars, mainVars, tailVars>>
outsideCache == <<corrVars, geomVars, sesVars, stateVars, mainVars, tailVars>>
outsideSes == <<corrVars, geomVars, cacheVars, stateVars, mainVars, tailVars>>
outsideState == <<corrVars, geomVars, cacheVars, sesVars, mainVars, tailVars>>
outsideMain == <<corrVars, geomVars, cacheVars, sesVars, stateVars, tailVars>>
outsideSlow == <<corrVars, geomVars, cacheVars, sesVars, stateVars, mainVars,
                 parseVars, zpoolVars>>
outsideParse == <<corrVars, geomVars, cacheVars, sesVars, stateVars, mainVars,
                  slowVars, zpoolVars>>
outsideZpool == <<corrVars, geomVars, cacheVars, sesVars, stateVars, mainVars,
                  slowVars, parseVars>>
vars == <<corrVars, geomVars, laterVars>>

-----------------------------------------------------------------------------
(* Option, sequences, maps *)

None == <<>>
Some(x) == <<x>>
IsSome(o) == o # <<>>
Unwrap(o) == o[1]

Range(s) == {s[i] : i \in DOMAIN s}

\* All orders in which the elements of S can be visited.
Perms(S) ==
    {s \in [1..Cardinality(S) -> S] : \A i, j \in DOMAIN s : s[i] = s[j] => i = j}

SetMin(S) == CHOOSE x \in S : \A y \in S : x <= y

\* Iterator::min over Option-free integers: None on an empty iterator.
IterMin(S) == IF S = {} THEN None ELSE Some(SetMin(S))

EmptyMap == [k \in {} |-> None]

\* HashMap::get
MapGet(m, k) == IF k \in DOMAIN m THEN Some(m[k]) ELSE None

\* HashMap without key k (HashMap::remove)
MapRemove(m, k) == [x \in DOMAIN m \ {k} |-> m[x]]

\* HashMap::insert (replaces an existing entry)
MapInsert(m, k, v) == [x \in DOMAIN m \cup {k} |-> IF x = k THEN v ELSE m[x]]

-----------------------------------------------------------------------------
(* Strings.  A name is a TLA+ string; Spell gives its bytes so that         *)
(* str::starts_with and String::cmp are computed, not assumed.              *)

MultipathPrefix == <<109, 117, 108, 116, 105, 112, 97, 116, 104, 47>>

Spell(name) ==
    CASE name = "da0"           -> <<100, 97, 48>>
      [] name = "da1"           -> <<100, 97, 49>>
      [] name = "da2"           -> <<100, 97, 50>>
      [] name = "da3"           -> <<100, 97, 51>>
      [] name = "da4"           -> <<100, 97, 52>>
      [] name = "pass3"         -> <<112, 97, 115, 115, 51>>
      [] name = "da0p1"         -> <<100, 97, 48, 112, 49>>
      [] name = "nda0"          -> <<110, 100, 97, 48>>
      [] name = "ada0"          -> <<97, 100, 97, 48>>
      [] name = "cd0"           -> <<99, 100, 48>>
      [] name = "multipath/A"   -> MultipathPrefix \o <<65>>
      [] name = "multipath/B"   -> MultipathPrefix \o <<66>>
      [] name = "multipath/C"   -> MultipathPrefix \o <<67>>
      [] name = "multipath/Ap1" -> MultipathPrefix \o <<65, 112, 49>>
      [] name = "da"            -> <<100, 97>>
      [] name = "nda"           -> <<110, 100, 97>>
      [] name = "multipath/"    -> MultipathPrefix

\* str::starts_with
starts_with(name, prefix) ==
    LET n == Spell(name)
        p == Spell(prefix)
    IN  /\ Len(p) <= Len(n)
        /\ \A i \in 1..Len(p) : n[i] = p[i]

\* Ord::cmp on strings is "Less": bytewise lexicographic order.
SeqLess(a, b) ==
    \E k \in 0..Len(a) :
        /\ k <= Len(b)
        /\ \A i \in 1..k : a[i] = b[i]
        /\ \/ k = Len(a) /\ k < Len(b)
           \/ k < Len(a) /\ k < Len(b) /\ a[k + 1] < b[k + 1]

StrLess(a, b) == SeqLess(Spell(a), Spell(b))

-----------------------------------------------------------------------------
(* Domain types (src/domain/device.rs) *)

\* DiskStatistics; the correlator copies it whole and never reads a field.
DiskStatistics(r, b) == [read_iops |-> r, busy_pct |-> b]

\* DiskStatistics::default(): #[derive(Default)], every rate is 0.0
DefaultStatistics == DiskStatistics(0, 0)

\* Mutant of PhysicalDisk: every disk carries one and the same identifier.
PhysicalDisk_SharedIdent(name, rank, ident, stats) ==
    [device_name |-> name, rank |-> rank, ident |-> Some("W1"),
     slot |-> None, enclosure |-> None, statistics |-> stats]

PhysicalDisk(name, rank, ident, stats) ==
    [device_name |-> name, rank |-> rank, ident |-> ident,
     slot |-> None, enclosure |-> None, statistics |-> stats]

MultipathInfo(name, serial, state, paths) ==
    [name |-> name, serial |-> serial, state |-> state, paths |-> paths]

PathInfo(name, active) == [device_name |-> name, is_active |-> active]

SesSlotInfo(slot, name, enclosure) ==
    [slot |-> slot, device_name |-> name, enclosure |-> enclosure]

-----------------------------------------------------------------------------
(* TopologyCorrelator::correlate (src/domain/topology.rs) *)

\* Mutant of AttachSes: no disk gets slot or enclosure.
AttachSes_Never(d, ses) == d

\* The closure of lines 34-42: attach slot and enclosure when ses_info has the name.
AttachSes(d, ses) ==
    IF d.device_name \in DOMAIN ses
    THEN [d EXCEPT !.slot = Some(ses[d.device_name].slot),
                   !.enclosure = Some(ses[d.device_name].enclosure)]
    ELSE d

\* physical_disks.drain(..).map(..).collect() into a HashMap keyed by name:
\* a later element replaces an earlier one of the same name.
RECURSIVE BuildDiskMap(_, _, _)
BuildDiskMap(disks, ses, acc) ==
    IF disks = <<>>
    THEN acc
    ELSE BuildDiskMap(Tail(disks), ses,
                      MapInsert(acc, Head(disks).device_name, AttachSes(Head(disks), ses)))

\* Mutant of CollectPaths: disk_map.get instead of disk_map.remove, the disk
\* stays in the index.
RECURSIVE CollectPaths_NoRemove(_, _)
CollectPaths_NoRemove(paths, st) ==
    IF paths = <<>>
    THEN st
    ELSE LET p == Head(paths)
         IN  IF p.device_name \in DOMAIN st.disk_map
             THEN CollectPaths_NoRemove(Tail(paths),
                    [disk_map    |-> st.disk_map,
                     path_disks  |-> Append(st.path_disks, st.disk_map[p.device_name]),
                     active_path |-> IF p.is_active
                                     THEN Some(p.device_name)
                                     ELSE st.active_path])
             ELSE CollectPaths_NoRemove(Tail(paths), st)

\* The inner loop "for path_info in &mp_info.paths": st is
\* [disk_map, path_disks, active_path].
RECURSIVE CollectPaths(_, _)
CollectPaths(paths, st) ==
    IF paths = <<>>
    THEN st
    ELSE LET p == Head(paths)
         IN  IF p.device_name \in DOMAIN st.disk_map
             THEN CollectPaths(Tail(paths),
                    [disk_map    |-> MapRemove(st.disk_map, p.device_name),
                     path_disks  |-> Append(st.path_disks, st.disk_map[p.device_name]),
                     active_path |-> IF p.is_active
                                     THEN Some(p.device_name)
                                     ELSE st.active_path])
             ELSE CollectPaths(Tail(paths), st)

\* Mutant of GroupStatistics: the active path is ignored, the first resolved
\* member always supplies the statistics.
GroupStatistics_FirstPath(path_disks, active_path) ==
    IF path_disks = <<>> THEN DefaultStatistics ELSE path_disks[1].statistics

\* "let stats = if path_disks.is_empty() .. else if let Some(active) .. else first"
GroupStatistics(path_disks, active_path) ==
    IF path_disks = <<>>
    THEN DefaultStatistics
    ELSE IF IsSome(active_path)
         THEN LET hits == {i \in DOMAIN path_disks :
                             path_disks[i].device_name = Unwrap(active_path)}
              IN  IF hits = {}
                  THEN DefaultStatistics
                  ELSE path_disks[SetMin(hits)].statistics
         ELSE path_disks[1].statistics

\* Mutant of GroupSlot: no fallback to the slot map by declared path name.
GroupSlot_NoFallback(path_disks, paths, ses) ==
    IterMin({Unwrap(path_disks[i].slot) :
               i \in {j \in DOMAIN path_disks : IsSome(path_disks[j].slot)}})

\* Minimum slot of the resolved members, else minimum slot that ses_info
\* holds under the name of any declared member.
GroupSlot(path_disks, paths, ses) ==
    LET fromDisks == IterMin({Unwrap(path_disks[i].slot) :
                                i \in {j \in DOMAIN path_disks : IsSome(path_disks[j].slot)}})
    IN  IF IsSome(fromDisks)
        THEN fromDisks
        ELSE IterMin({ses[paths[i].device_name].slot :
                        i \in {j \in DOMAIN paths : paths[j].device_name \in DOMAIN ses}})

\* One iteration of "for (mp_name, mp_info) in multipath_info":
\* the new disk_map and the MultipathDevice pushed.
ProcessGroup(mp_name, mp_info, disk_map, ses, zfs) ==
    LET st == CollectPaths(mp_info.paths,
                  [disk_map |-> disk_map, path_disks |-> <<>>, active_path |-> None])
    IN  [disk_map |-> st.disk_map,
         device   |-> [name        |-> mp_name,
                       ident       |-> Some(mp_info.serial),
                       state       |-> mp_info.state,
                       paths       |-> [i \in DOMAIN st.path_disks |->
                                            st.path_disks[i].device_name],
                       active_path |-> st.active_path,
                       statistics  |-> GroupStatistics(st.path_disks, st.active_path),
                       zfs_info    |-> MapGet(zfs, mp_name),
                       slot        |-> GroupSlot(st.path_disks, mp_info.paths, ses)]]

\* Mutant of ProcessGroups: a group that resolves no member is not pushed.
RECURSIVE ProcessGroups_SkipEmpty(_, _, _, _, _, _)
ProcessGroups_SkipEmpty(order, mp, disk_map, ses, zfs, devices) ==
    IF order = <<>>
    THEN [disk_map |-> disk_map, devices |-> devices]
    ELSE LET g == ProcessGroup(Head(order), mp[Head(order)], disk_map, ses, zfs)
         IN  ProcessGroups_SkipEmpty(Tail(order), mp, g.disk_map, ses, zfs,
                IF g.device.paths = <<>> THEN devices ELSE Append(devices, g.device))

\* The loop over multipath_info in the iteration order `order`.
RECURSIVE ProcessGroups(_, _, _, _, _, _)
ProcessGroups(order, mp, disk_map, ses, zfs, devices) ==
    IF order = <<>>
    THEN [disk_map |-> disk_map, devices |-> devices]
    ELSE LET g == ProcessGroup(Head(order), mp[Head(order)], disk_map, ses, zfs)
         IN  ProcessGroups(Tail(order), mp, g.disk_map, ses, zfs,
                           Append(devices, g.device))

\* Mutant of SlotCmpLess: the two mixed arms are swapped, a device without a
\* slot sorts first.
SlotCmpLess_NoneFirst(a, b) ==
    IF IsSome(a.slot) /\ IsSome(b.slot) THEN Unwrap(a.slot) < Unwrap(b.slot)
    ELSE IF IsSome(a.slot) /\ ~IsSome(b.slot) THEN FALSE
    ELSE IF ~IsSome(a.slot) /\ IsSome(b.slot) THEN TRUE
    ELSE StrLess(a.name, b.name)

\* The comparator of sort_by answers Ordering::Less.
SlotCmpLess(a, b) ==
    IF IsSome(a.slot) /\ IsSome(b.slot) THEN Unwrap(a.slot) < Unwrap(b.slot)
    ELSE IF IsSome(a.slot) /\ ~IsSome(b.slot) THEN TRUE
    ELSE IF ~IsSome(a.slot) /\ IsSome(b.slot) THEN FALSE
    ELSE StrLess(a.name, b.name)

\* Insert x into the sorted s behind every element that does not follow it.
InsertSorted(s, x) ==
    LET later == {i \in DOMAIN s : SlotCmpLess(x, s[i])}
        at    == IF later = {} THEN Len(s) + 1 ELSE SetMin(later)
    IN  SubSeq(s, 1, at - 1) \o <<x>> \o SubSeq(s, at, Len(s))

\* Vec::sort_by is a stable sort.
RECURSIVE SortDevices(_)
SortDevices(devices) ==
    IF devices = <<>>
    THEN <<>>
    ELSE InsertSorted(SortDevices(SubSeq(devices, 1, Len(devices) - 1)),
                      devices[Len(devices)])

\* The disks of disk_map whose ident is `ident`, in the iteration order `order`.
RECURSIVE SelectDisks(_, _, _)
SelectDisks(order, disk_map, ident) ==
    IF order = <<>>
    THEN <<>>
    ELSE IF disk_map[Head(order)].ident = ident
         THEN <<disk_map[Head(order)]>> \o SelectDisks(Tail(order), disk_map, ident)
         ELSE SelectDisks(Tail(order), disk_map, ident)

IdentsOf(disk_map) ==
    {Unwrap(disk_map[n].ident) : n \in {k \in DOMAIN disk_map : IsSome(disk_map[k].ident)}}

\* deduplicate_by_wwn: diskOrder is the iteration order of disk_map,
\* identOrder that of ident_groups.
RECURSIVE FirstOfEach(_, _, _)
FirstOfEach(identOrder, diskOrder, disk_map) ==
    IF identOrder = <<>>
    THEN <<>>
    ELSE <<SelectDisks(diskOrder, disk_map, Some(Head(identOrder)))[1]>>
         \o FirstOfEach(Tail(identOrder), diskOrder, disk_map)

\* Mutant of deduplicate_by_wwn: every disk of every identifier group is kept.
deduplicate_by_wwn_KeepAll(disk_map, diskOrder, identOrder) ==
    [i \in DOMAIN diskOrder |-> disk_map[diskOrder[i]]]

deduplicate_by_wwn(disk_map, diskOrder, identOrder) ==
    FirstOfEach(identOrder, diskOrder, disk_map) \o SelectDisks(diskOrder, disk_map, None)

-----------------------------------------------------------------------------
(* Bounded inputs of correlate *)

\* Longest declared path list of a group.
MaxPaths == 2

\* Most paths the groups of one input declare together.
MaxDeclared == 3

DiskNames == {"da0", "da1", "da2"}
DiskSeq == <<"da0", "da1", "da2">>
GroupNames == {"multipath/A", "multipath/B", "multipath/C"}

\* The serial is the part of the group name behind "multipath/".
SerialOf(g) ==
    CASE g = "multipath/A" -> "A" [] g = "multipath/B" -> "B" [] g = "multipath/C" -> "C"

StateOf(g) ==
    CASE g = "multipath/A" -> "Optimal"
      [] g = "multipath/B" -> "Degraded"
      [] g = "multipath/C" -> "Unknown"

\* Statistics and identifier a disk carries when it is present; da0 and da1
\* are one physical disk seen through two controllers.
StatsOf(n) ==
    CASE n = "da0" -> DiskStatistics(120, 30)
      [] n = "da1" -> DiskStatistics(0, 0)
      [] n = "da2" -> DiskStatistics(35, 10)

WwnOf(n) == CASE n = "da0" -> "W1" [] n = "da1" -> "W1" [] n = "da2" -> "W2"

\* Enclosure slots: da0 and da1 sit in bays the enclosure reports, da2 in none.
SlotOf(n) == CASE n = "da0" -> 5 [] n = "da1" -> 2

SlottedNames == {"da0", "da1"}

\* The disks named in S, in the order of DiskSeq; withIdent names those that
\* carry their identifier.
RECURSIVE DiskVec(_, _, _)
DiskVec(names, S, withIdent) ==
    IF names = <<>>
    THEN <<>>
    ELSE LET n == Head(names)
             rest == DiskVec(Tail(names), S, withIdent)
         IN  IF n \in S
             THEN <<PhysicalDisk(n, Some(1),
                                 IF n \in withIdent THEN Some(WwnOf(n)) ELSE None,
                                 StatsOf(n))>> \o rest
             ELSE rest

DiskInputs ==
    {DiskVec(DiskSeq, S, W) : S \in SUBSET DiskNames, W \in SUBSET DiskNames}

\* Disks as GeomCollector hands them over: no identifier (geom.rs line 102).
PlainDiskInputs == {DiskVec(DiskSeq, S, {}) : S \in SUBSET DiskNames}

SesInputs ==
    {[n \in S |-> SesSlotInfo(SlotOf(n), n, "ses0")] : S \in SUBSET SlottedNames}

PathInfos == {PathInfo(n, a) : n \in DiskNames, a \in BOOLEAN}

\* Declared path lists: up to MaxPaths members, each provider named once.
PathLists ==
    {l \in UNION {[1..k -> PathInfos] : k \in 0..MaxPaths} :
        \A i, j \in DOMAIN l : l[i].device_name = l[j].device_name => i = j}

\* The third group declares no path; it is there as a third sort key.
PathListsOf(g) == IF g = "multipath/C" THEN {<<>>} ELSE PathLists

RECURSIVE SumLen(_, _)
SumLen(f, G) ==
    IF G = {}
    THEN 0
    ELSE LET g == CHOOSE x \in G : TRUE
         IN  Len(f[g]) + SumLen(f, G \ {g})

GroupInputs ==
    UNION {{f \in [G -> PathLists] :
                /\ \A g \in G : f[g] \in PathListsOf(g)
                /\ SumLen(f, G) <= MaxDeclared} :
              G \in SUBSET GroupNames}

ZfsInput ==
    [g \in {"multipath/A"} |->
        [pool |-> "tank", vdev |-> "raidz2-0", role |-> "Data", state |-> "ONLINE"]]

InitGeomIdle ==
    /\ previous_snapshot = None
    /\ geom_result = None
    /\ geom_taken = None
    /\ geom_baseline = None

\* MultipathCollector::new() and ZfsCollector::new(): no cache, no refresh yet.
NewCollector == [cache |-> None, last_update |-> None]

InitCacheIdle ==
    /\ now = 0
    /\ multipath_collector = NewCollector
    /\ zfs_collector = NewCollector
    /\ refreshed = [c \in {"multipath", "zfs"} |-> None]
    /\ last_collect = [c \in {"multipath", "zfs"} |-> None]

\* SesCollector::collect() not called.
InitSesIdle ==
    /\ ses_devices = None
    /\ ses_scans = EmptyMap
    /\ ses_slot_map = None

\* const MIN_HISTORY_SIZE: usize = 60
MIN_HISTORY_SIZE == 60

\* AppState::default()
NewAppState ==
    [multipath_devices         |-> <<>>,
     standalone_disks          |-> <<>>,
     should_quit               |-> FALSE,
     history_size              |-> MIN_HISTORY_SIZE,
     cpu_history               |-> <<>>,
     cpu_aggregate_history     |-> <<>>,
     memory_history            |-> <<>>,
     storage_read_iops_history |-> <<>>,
     storage_busy_history      |-> <<>>,
     drive_busy_history        |-> EmptyMap,
     network_history           |-> EmptyMap]

\* Arc::new(Mutex::new(AppState::new())), run_app not yet in its loop.
InitStateIdle ==
    /\ app_state = NewAppState
    /\ current_state = None
    /\ rpc = "size"
    /\ term_width = None
    /\ ticks = 0
    /\ widest = MIN_HISTORY_SIZE

\* The locals of a tick before any collector has been asked.
NoTick == [geom |-> "none", multipath |-> "none", zfs |-> "none",
           multipath_info |-> None, zfs_info |-> None,
           sources |-> None, result |-> None]

\* The shared state as AppState::new() leaves it: nothing installed.
NewShared == [devices |-> 0, standalone |-> 0, history |-> 0, system |-> 0,
              sources |-> None, should_quit |-> FALSE]

\* main() before its first statement.
InitMainIdle ==
    /\ spc = "startup"
    /\ tpc = "not_spawned"
    /\ mutex = "none"
    /\ sample_no = 0
    /\ cur = NoTick
    /\ caches = [c \in {"multipath", "zfs"} |-> None]
    /\ ses_source = "none"
    /\ shared = NewShared
    /\ snapshot = None
    /\ ticks_at_finish = None

\* What the slow cadence has recorded before the loop is entered.
NoSlowLog == [tick_enumerated |-> FALSE, tick_invoked |-> FALSE,
              enumerations |-> 0, last_enum |-> None, last_write |-> None]

\* main() at line 64, args.refresh not yet looked at.
InitSlowIdle ==
    /\ clock = 0
    /\ refresh = 0
    /\ last_update = 0
    /\ last_slow_update = 0
    /\ lpc = "top"
    /\ guard = "none"
    /\ vms_jails = None
    /\ state_vms_jails = <<<<>>, <<>>>>
    /\ slow_log = NoSlowLog

\* parse_gmultipath_output not called.
InitParseIdle ==
    /\ gm_output = <<>>
    /\ gm_parsed = None

\* parse_pool_status not called.
InitZpoolIdle ==
    /\ zpool = ""
    /\ zpool_status = <<>>
    /\ pool_drives = None

InitTailIdle ==
    /\ InitSlowIdle
    /\ InitParseIdle
    /\ InitZpoolIdle

InitLaterIdle ==
    /\ InitCacheIdle
    /\ InitSesIdle
    /\ InitStateIdle
    /\ InitMainIdle
    /\ InitTailIdle

InitCorrelate ==
    /\ \/ physical_disks \in DiskInputs /\ ses_info = EmptyMap
       \/ physical_disks \in PlainDiskInputs /\ ses_info \in SesInputs \ {EmptyMap}
    /\ \E lists \in GroupInputs :
         multipath_info =
            [g \in DOMAIN lists |-> MultipathInfo(g, SerialOf(g), StateOf(g), lists[g])]
    /\ zfs_info = ZfsInput
    /\ multipath_devices = <<>>
    /\ standalone_disks = <<>>
    /\ unclaimed = EmptyMap
    /\ cpc = "ready"
    /\ InitGeomIdle
    /\ InitLaterIdle

\* correlate(physical_disks, multipath_info, ses_info, zfs_info): the whole
\* call.  `order` is the iteration order of multipath_info, `diskOrder` that
\* of the remaining disk_map and `identOrder` that of ident_groups.
Correlate ==
    /\ cpc = "ready"
    /\ \E order \in Perms(DOMAIN multipath_info) :
         \E g \in {ProcessGroups(order, multipath_info,
                                 BuildDiskMap(physical_disks, ses_info, EmptyMap),
                                 ses_info, zfs_info, <<>>)} :
           /\ multipath_devices' = SortDevices(g.devices)
           /\ unclaimed' = g.disk_map
           /\ \E diskOrder \in Perms(DOMAIN g.disk_map) :
                \E identOrder \in Perms(IdentsOf(g.disk_map)) :
                  standalone_disks' =
                      deduplicate_by_wwn(g.disk_map, diskOrder, identOrder)
    /\ cpc' = "done"
    /\ UNCHANGED <<physical_disks, multipath_info, ses_info, zfs_info>>
    /\ UNCHANGED <<geomVars, laterVars>>

NextCorrelate == Correlate

SpecCorrelate == InitCorrelate /\ [][NextCorrelate]_vars

-----------------------------------------------------------------------------
(* Properties of correlate *)

Done == cpc = "done"

InputNames == {physical_disks[i].device_name : i \in DOMAIN physical_disks}

\* The disk the index holds under name n: the last one of that name in the input.
InputDisk(n) ==
    physical_disks[CHOOSE i \in DOMAIN physical_disks :
                      /\ physical_disks[i].device_name = n
                      /\ \A j \in DOMAIN physical_disks :
                            physical_disks[j].device_name = n => j <= i]

Declared(g) == {multipath_info[g].paths[i].device_name : i \in DOMAIN multipath_info[g].paths}

DeviceIdx(g) == {i \in DOMAIN multipath_devices : multipath_devices[i].name = g}

SetMax(S) == CHOOSE x \in S : \A y \in S : x >= y

\* The declared entries of g that pulled their disk, given the emitted device d:
\* the first entry of each name that d lists.
ResolvedIdx(g, d) ==
    LET paths == multipath_info[g].paths
    IN  {i \in DOMAIN paths :
            /\ paths[i].device_name \in Range(d.paths)
            /\ \A j \in 1..(i - 1) : paths[j].device_name # paths[i].device_name}

StandaloneNames == {standalone_disks[i].device_name : i \in DOMAIN standalone_disks}

\* C1 (as stated), read on the groups whose declared disks no other group
\* declares: every such group that declares an active path whose disk is in
\* the physical-disk input gets active_path = that path and that path's
\* statistics; with no active path resolved but a member resolved, the
\* statistics are those of the first resolved member in declared order.
C1_AsStated ==
    Done =>
      \A g \in DOMAIN multipath_info :
        (\A h \in DOMAIN multipath_info \ {g} : Declared(h) \cap Declared(g) = {}) =>
          \A i \in DeviceIdx(g) :
            LET d == multipath_devices[i]
                paths == multipath_info[g].paths
            IN  /\ \A k \in DOMAIN paths :
                      (paths[k].is_active /\ paths[k].device_name \in InputNames) =>
                         /\ d.active_path = Some(paths[k].device_name)
                         /\ d.statistics = InputDisk(paths[k].device_name).statistics
                /\ (d.active_path = None /\ d.paths # <<>>) =>
                      d.statistics = InputDisk(d.paths[1]).statistics

\* C1 (amended): among the declared paths a group resolves (disk in the input
\* and not pulled by a group processed earlier; every present declared disk
\* when no other group declares it), the last one flagged active in declared
\* order gives active_path and the statistics; when none is flagged active
\* but a member is resolved, active_path is None and the statistics are those
\* of the first resolved member in declared order.
C1_ActivePathStatistics ==
    Done =>
      \A g \in DOMAIN multipath_info :
        \A i \in DeviceIdx(g) :
          LET d == multipath_devices[i]
              paths == multipath_info[g].paths
              res == ResolvedIdx(g, d)
              act == {k \in res : paths[k].is_active}
          IN  /\ Range(d.paths) \subseteq Declared(g) \cap InputNames
              /\ \A n \in Declared(g) \cap InputNames :
                    (\A h \in DOMAIN multipath_info \ {g} : n \notin Declared(h)) =>
                        n \in Range(d.paths)
              /\ d.paths = [k \in 1..Cardinality(res) |->
                              paths[CHOOSE x \in res :
                                      Cardinality({y \in res : y < x}) = k - 1].device_name]
              /\ act # {} =>
                    /\ d.active_path = Some(paths[SetMax(act)].device_name)
                    /\ d.statistics = InputDisk(paths[SetMax(act)].device_name).statistics
              /\ (act = {} /\ res # {}) =>
                    /\ d.active_path = None
                    /\ d.statistics = InputDisk(paths[SetMin(res)].device_name).statistics

\* C1 witness: a group resolved two members, the second is the active one and
\* its statistics differ from the first member's.
C1_Witness ==
    /\ Done
    /\ \E i \in DOMAIN multipath_devices :
         /\ multipath_devices[i].paths = <<"da1", "da0">>
         /\ multipath_devices[i].active_path = Some("da0")
         /\ multipath_devices[i].statistics = StatsOf("da0")

\* C2: exactly one MultipathDevice per group of the input; a group none of
\* whose declared members is in the physical-disk input is emitted with
\* default statistics, no resolved path and no active path.
C2_EveryGroupEmitted ==
    Done =>
      /\ Len(multipath_devices) = Cardinality(DOMAIN multipath_info)
      /\ \A g \in DOMAIN multipath_info :
           /\ Cardinality(DeviceIdx(g)) = 1
           /\ Declared(g) \cap InputNames = {} =>
                \A i \in DeviceIdx(g) :
                  /\ multipath_devices[i].statistics = DefaultStatistics
                  /\ multipath_devices[i].paths = <<>>
                  /\ multipath_devices[i].active_path = None

\* C2 witness: disks are present, and a group that declares members, none of
\* them present, has been emitted.
C2_Witness ==
    /\ Done
    /\ physical_disks # <<>>
    /\ \E g \in DOMAIN multipath_info :
         /\ Declared(g) # {}
         /\ Declared(g) \cap InputNames = {}
         /\ DeviceIdx(g) # {}

\* Number of places of the output that hold the disk name n.
Placements(n) ==
    Cardinality(UNION {{<<i, k>> : k \in {x \in DOMAIN multipath_devices[i].paths :
                                             multipath_devices[i].paths[x] = n}} :
                          i \in DOMAIN multipath_devices})
    + Cardinality({i \in DOMAIN standalone_disks : standalone_disks[i].device_name = n})

\* C3: every input disk name is placed at most once (in one group's paths or
\* in the standalone list, never both, never twice); a disk that no group
\* declares is a standalone candidate, in the standalone list unless a
\* standalone disk with the same identifier represents it.
C3_DiskPlacedOnce ==
    Done =>
      /\ \A n \in InputNames : Placements(n) <= 1
      /\ \A n \in InputNames :
           (\A g \in DOMAIN multipath_info : n \notin Declared(g)) =>
              /\ n \in DOMAIN unclaimed
              /\ \/ n \in StandaloneNames
                 \/ /\ IsSome(InputDisk(n).ident)
                    /\ \E i \in DOMAIN standalone_disks :
                         standalone_disks[i].ident = InputDisk(n).ident

\* C3 witness: a present disk declared by two groups was resolved by one of
\* them, and another disk went to the standalone list.
C3_Witness ==
    /\ Done
    /\ \E g, h \in DOMAIN multipath_info :
         /\ g # h
         /\ Declared(g) \cap Declared(h) \cap InputNames # {}
         /\ \E i \in DeviceIdx(g) : multipath_devices[i].paths # <<>>
    /\ standalone_disks # <<>>

\* C4: the standalone list holds exactly one disk per identifier carried by
\* an unclaimed disk, plus every unclaimed disk without identifier, and
\* nothing else.
C4_StandaloneDeduplicated ==
    Done =>
      /\ \A id \in IdentsOf(unclaimed) :
           Cardinality({i \in DOMAIN standalone_disks :
                           standalone_disks[i].ident = Some(id)}) = 1
      /\ \A n \in DOMAIN unclaimed :
           unclaimed[n].ident = None =>
              Cardinality({i \in DOMAIN standalone_disks :
                              standalone_disks[i] = unclaimed[n]}) = 1
      /\ \A i \in DOMAIN standalone_disks :
           /\ standalone_disks[i].device_name \in DOMAIN unclaimed
           /\ standalone_disks[i] = unclaimed[standalone_disks[i].device_name]
      /\ Len(standalone_disks) =
            Cardinality(IdentsOf(unclaimed))
            + Cardinality({n \in DOMAIN unclaimed : unclaimed[n].ident = None})

\* C4 witness: two unclaimed disks share an identifier, a third has another
\* one, and the standalone list has two entries.
C4_Witness ==
    /\ Done
    /\ DOMAIN unclaimed = {"da0", "da1", "da2"}
    /\ unclaimed["da0"].ident = Some("W1")
    /\ unclaimed["da1"].ident = Some("W1")
    /\ unclaimed["da2"].ident = Some("W2")
    /\ Len(standalone_disks) = 2

\* C5: in the returned device list every device with a slot precedes every
\* device without one, slots ascend, and devices without a slot ascend by name.
C5_SortedBySlotThenName ==
    Done =>
      \A i, j \in DOMAIN multipath_devices :
        i < j =>
          LET a == multipath_devices[i]
              b == multipath_devices[j]
          IN  /\ IsSome(b.slot) => IsSome(a.slot) /\ Unwrap(a.slot) <= Unwrap(b.slot)
              /\ (a.slot = None /\ b.slot = None) => StrLess(a.name, b.name)

\* C5 witness: three groups with slots 5, none and 2 come out as 2, 5, none.
C5_Witness ==
    /\ Done
    /\ Len(multipath_devices) = 3
    /\ [i \in 1..3 |-> multipath_devices[i].slot] = <<Some(2), Some(5), None>>
    /\ [i \in 1..3 |-> multipath_devices[i].name]
          = <<"multipath/B", "multipath/A", "multipath/C">>

\* The slot a resolved member carries: the slot map's under its name, else
\* the one the input disk came with.
MemberSlot(n) == AttachSes(InputDisk(n), ses_info).slot

\* C6: a device's slot is the minimum slot of its resolved members; only when
\* none of them carries a slot, the minimum slot the slot map holds under the
\* names of its declared members; absent exactly when both find nothing.
C6_SlotMinimumWithFallback ==
    Done =>
      \A g \in DOMAIN multipath_info :
        \A i \in DeviceIdx(g) :
          LET d == multipath_devices[i]
              resolved == {Unwrap(MemberSlot(n)) :
                             n \in {m \in Range(d.paths) : IsSome(MemberSlot(m))}}
              declared == {ses_info[n].slot : n \in Declared(g) \cap DOMAIN ses_info}
          IN  /\ resolved # {} => d.slot = Some(SetMin(resolved))
              /\ (resolved = {} /\ declared # {}) => d.slot = Some(SetMin(declared))
              /\ d.slot = None <=> (resolved = {} /\ declared = {})

\* C6 witness: a device has resolved members, none of which carries a slot,
\* and takes its slot from a declared member that was not resolved.
C6_Witness ==
    /\ Done
    /\ \E i \in DOMAIN multipath_devices :
         /\ multipath_devices[i].paths # <<>>
         /\ \A n \in Range(multipath_devices[i].paths) : n \notin DOMAIN ses_info
         /\ IsSome(multipath_devices[i].slot)

-----------------------------------------------------------------------------
(* GeomCollector (src/collectors/geom.rs) *)

\* Latest capture time a snapshot can carry; a new snapshot may carry any
\* time in 0..MaxTime, also one not after the stored snapshot's.
MaxTime == 2

\* Number of devices of the counter source (the rows of TreeLookup, and one
\* device the tree does not know).
NumDevs == 7

\* Devices of the counter source, by devstat id.
DevIds == 1..NumDevs

\* Tree::lookup(id): name and rank of the devices the tree knew when it was
\* built in GeomCollector::new; id 7 (da1) appeared later and is not in it.
TreeLookup(id) ==
    CASE id = 1 -> Some([name |-> "da0",         rank |-> Some(1)])
      [] id = 2 -> Some([name |-> "da0p1",       rank |-> Some(2)])
      [] id = 3 -> Some([name |-> "ada0",        rank |-> Some(1)])
      [] id = 4 -> Some([name |-> "multipath/A", rank |-> Some(2)])
      [] id = 5 -> Some([name |-> "nda0",        rank |-> None])
      [] id = 6 -> Some([name |-> "cd0",         rank |-> None])
      [] OTHER  -> None

\* Rates Statistics::compute (freebsd_libgeom) can report for a device.
RateVals == {0, 120}

\* Devices that come and go between snapshots; the others are in every one.
HotplugDevs == {1, 7}

\* Snapshot::new(): a capture time and the devices that have counters.
Snapshots ==
    [timestamp : 0..MaxTime,
     devs : {(DevIds \ HotplugDevs) \cup H : H \in SUBSET HotplugDevs}]

is_physical_disk(name) ==
    \/ starts_with(name, "da")
    \/ starts_with(name, "nda")
    \/ starts_with(name, "multipath/")

\* Mutant of KeepDevice: the name filter is missing, only the rank filter is
\* applied.
KeepDevice_NoNameFilter(name, rank) ==
    ~(IsSome(rank) /\ Unwrap(rank) > 1 /\ ~starts_with(name, "multipath/"))

\* The two filters of compute_statistics: the name filter, then the rank
\* filter that multipath/ names bypass.
KeepDevice(name, rank) ==
    /\ is_physical_disk(name)
    /\ ~(IsSome(rank) /\ Unwrap(rank) > 1 /\ ~starts_with(name, "multipath/"))

\* The ids among `iterated` that pass Tree::lookup and both filters: those
\* Statistics::compute is called for.
KeptIds(iterated) ==
    {id \in iterated :
        /\ IsSome(TreeLookup(id))
        /\ KeepDevice(Unwrap(TreeLookup(id)).name, Unwrap(TreeLookup(id)).rank)}

\* The body of the for loop over the pairs, for the ids in `iterated`
\* (ascending, the order of the snapshot); rates[id] is what
\* Statistics::compute reports for id.
RECURSIVE PushDisks(_, _, _)
PushDisks(id, iterated, rates) ==
    IF id > NumDevs
    THEN <<>>
    ELSE LET rest == PushDisks(id + 1, iterated, rates)
             gident == TreeLookup(id)
         IN  IF id \in iterated /\ IsSome(gident)
                /\ KeepDevice(Unwrap(gident).name, Unwrap(gident).rank)
             THEN <<PhysicalDisk(Unwrap(gident).name, Unwrap(gident).rank, None,
                                 DiskStatistics(rates[id], 0))>> \o rest
             ELSE rest

\* Mutant of compute_statistics: the "etime <= 0.0" return is missing.
compute_statistics_NoElapsedGuard(prev, current, iterated, rates) ==
    IF prev = None THEN <<>> ELSE PushDisks(1, iterated, rates)

\* compute_statistics(&mut current): Ok(disks).
compute_statistics(prev, current, iterated, rates) ==
    IF prev = None
    THEN <<>>
    ELSE IF current.timestamp - Unwrap(prev).timestamp <= 0
         THEN <<>>
         ELSE PushDisks(1, iterated, rates)

\* Mutant of StoredAfterCollect: a snapshot that is not later than the stored
\* one does not replace it.
StoredAfterCollect_KeepOnAnomaly(prev, current) ==
    IF IsSome(prev) /\ current.timestamp - Unwrap(prev).timestamp <= 0
    THEN prev
    ELSE Some(current)

\* "self.previous_snapshot = Some(current_snapshot)" after compute_statistics
\* returned Ok.
StoredAfterCollect(prev, current) == Some(current)

\* The devices current.iter_pair(previous) yields: the library is not part
\* of the repository; it yields the devices of the current snapshot, either
\* all of them or those the previous snapshot has too.
IterPairChoices(prev, current) ==
    IF prev = None
    THEN {current.devs}
    ELSE {current.devs, current.devs \cap Unwrap(prev).devs}

\* GeomCollector::collect() with Snapshot::new() succeeding.
GeomCollect ==
    /\ \E current \in Snapshots :
         \E iterated \in IterPairChoices(previous_snapshot, current) :
           \E rates \in [KeptIds(iterated) -> RateVals] :
             /\ geom_result' = Some([ok |-> TRUE,
                                     disks |-> compute_statistics(previous_snapshot,
                                                   current, iterated, rates)])
             /\ geom_taken' = Some(current)
             /\ previous_snapshot' = StoredAfterCollect(previous_snapshot, current)
    /\ geom_baseline' = previous_snapshot
    /\ UNCHANGED <<corrVars, laterVars>>

\* GeomCollector::collect() with Snapshot::new() failing: the "?" returns the
\* error before anything is stored.
GeomCollectFail ==
    /\ geom_result' = Some([ok |-> FALSE, disks |-> <<>>])
    /\ geom_taken' = None
    /\ geom_baseline' = previous_snapshot
    /\ UNCHANGED previous_snapshot
    /\ UNCHANGED <<corrVars, laterVars>>

InitGeom ==
    /\ InitGeomIdle
    /\ physical_disks = <<>>
    /\ multipath_info = EmptyMap
    /\ ses_info = EmptyMap
    /\ zfs_info = EmptyMap
    /\ multipath_devices = <<>>
    /\ standalone_disks = <<>>
    /\ unclaimed = EmptyMap
    /\ cpc = "idle"
    /\ InitLaterIdle

NextGeom == GeomCollect \/ GeomCollectFail

SpecGeom == InitGeom /\ [][NextGeom]_vars

-----------------------------------------------------------------------------
(* Properties of GeomCollector::collect *)

\* The last collect() took a snapshot (Snapshot::new succeeded).
Took == IsSome(geom_taken)

\* new.timestamp - previous.timestamp of the last collect().
Elapsed == Unwrap(geom_taken).timestamp - Unwrap(geom_baseline).timestamp

EmptyOk == Some([ok |-> TRUE, disks |-> <<>>])

\* C7: collect() returns Ok(empty) when there is no valid delta: on the first
\* call, which stores the new snapshot as baseline, and whenever the elapsed
\* time between the stored and the new snapshot is <= 0.
C7_EmptyWithoutValidDelta ==
    /\ (Took /\ geom_baseline = None) =>
          /\ geom_result = EmptyOk
          /\ previous_snapshot = geom_taken
    /\ (Took /\ IsSome(geom_baseline) /\ Elapsed <= 0) => geom_result = EmptyOk

\* C7 witness: a collect() whose snapshot is older than the stored one, with
\* the disk da0 in both.
C7_Witness ==
    /\ Took
    /\ IsSome(geom_baseline)
    /\ Elapsed < 0
    /\ 1 \in Unwrap(geom_taken).devs \cap Unwrap(geom_baseline).devs
    /\ geom_result = EmptyOk

\* C8 (as stated): a collect() whose elapsed time is <= 0 leaves the stored
\* snapshot as it was.
C8_AsStated ==
    (Took /\ IsSome(geom_baseline) /\ Elapsed <= 0) =>
        previous_snapshot = geom_baseline

\* C8 (amended): a collect() whose elapsed time is <= 0 returns empty and
\* stores the snapshot it took, as every collect() that took one does; the
\* next delta is computed against that snapshot.
C8_AnomalousSnapshotStored ==
    /\ Took => previous_snapshot = geom_taken
    /\ (Took /\ IsSome(geom_baseline) /\ Elapsed <= 0) =>
          /\ geom_result = EmptyOk
          /\ previous_snapshot = geom_taken

\* C8 witness: the elapsed time was <= 0, the snapshot taken differs from the
\* stored one and has replaced it.
C8_Witness ==
    /\ Took
    /\ IsSome(geom_baseline)
    /\ Elapsed <= 0
    /\ geom_taken # geom_baseline
    /\ previous_snapshot = geom_taken

ValidDelta == Took /\ IsSome(geom_baseline) /\ Elapsed > 0

CommonIds == Unwrap(geom_taken).devs \cap Unwrap(geom_baseline).devs

\* The result holds a disk with the name and rank that the tree gives id.
Kept(id) ==
    /\ IsSome(TreeLookup(id))
    /\ \E i \in DOMAIN Unwrap(geom_result).disks :
         /\ Unwrap(geom_result).disks[i].device_name = Unwrap(TreeLookup(id)).name
         /\ Unwrap(geom_result).disks[i].rank = Unwrap(TreeLookup(id)).rank

\* C9: a device common to both snapshots is kept only if it is rank 1, or
\* its name starts with da or nda, or it has a multipath/ name; every other
\* device is dropped from the result.
C9_KeptOnlyIfRankOrName ==
    ValidDelta =>
      /\ Unwrap(geom_result).ok
      /\ \A id \in CommonIds :
           Kept(id) =>
             \/ Unwrap(TreeLookup(id)).rank = Some(1)
             \/ starts_with(Unwrap(TreeLookup(id)).name, "da")
             \/ starts_with(Unwrap(TreeLookup(id)).name, "nda")
             \/ starts_with(Unwrap(TreeLookup(id)).name, "multipath/")
      /\ \A i \in DOMAIN Unwrap(geom_result).disks :
           \E id \in Unwrap(geom_taken).devs :
             /\ IsSome(TreeLookup(id))
             /\ Unwrap(TreeLookup(id)).name = Unwrap(geom_result).disks[i].device_name
             /\ \/ Unwrap(TreeLookup(id)).rank = Some(1)
                \/ starts_with(Unwrap(TreeLookup(id)).name, "da")
                \/ starts_with(Unwrap(TreeLookup(id)).name, "nda")
                \/ starts_with(Unwrap(TreeLookup(id)).name, "multipath/")

\* C9 witness: all devices are in both snapshots; da0, multipath/A and nda0
\* are kept, and da0p1, ada0, cd0 and the device unknown to the tree are
\* dropped.
C9_Witness ==
    /\ ValidDelta
    /\ CommonIds = DevIds
    /\ [i \in DOMAIN Unwrap(geom_result).disks |->
            Unwrap(geom_result).disks[i].device_name] = <<"da0", "multipath/A", "nda0">>

-----------------------------------------------------------------------------
(* MultipathCollector::collect (src/collectors/multipath.rs) and            *)
(* ZfsCollector::collect (src/collectors/zfs.rs): 30 s caches.              *)

\* const CACHE_DURATION: Duration = Duration::from_secs(30), in seconds
CACHE_DURATION == 30

\* The clock stops here.
MaxClock == 60

\* Time that passes between two calls.
Delays == {15, 30}

\* Time an external command takes: Instant::now() of the refresh is read
\* after the command has returned.
RefreshTimes == {0, 15}

Ok(m) == [ok |-> TRUE, map |-> m]

Err == [ok |-> FALSE, map |-> EmptyMap]

\* The guard of the early return, with t the instant of the call:
\* both fields are Some and last_update.elapsed() < CACHE_DURATION.
CacheValid_Inclusive(c, t) ==
    /\ IsSome(c.cache)
    /\ IsSome(c.last_update)
    /\ t - Unwrap(c.last_update) <= CACHE_DURATION

CacheValid(c, t) ==
    /\ IsSome(c.cache)
    /\ IsSome(c.last_update)
    /\ t - Unwrap(c.last_update) < CACHE_DURATION

\* self.cache = Some(result.clone()); self.last_update = Some(Instant::now())
AfterRefresh(c, m, t) == [cache |-> Some(m), last_update |-> Some(t)]

\* A "?" that returns the error leaves before either field is assigned.
AfterFailedRefresh_Clear(c) == NewCollector

AfterFailedRefresh(c) == c

\* What one collect() call did: the collector as the call found it, the
\* instant of the call, the returned Result, the number of refresh passes it
\* started, the number of external commands it ran, and why it failed.
CallRecord(before, at, ret, refreshes, commands, failure) ==
    [before |-> before, at |-> at, ret |-> ret, refreshes |-> refreshes,
     commands |-> commands, failure |-> failure]

\* Topologies "gmultipath list" can describe; parse_gmultipath_output always
\* returns Ok, with one entry per "Geom name:" block.
MpTopologies ==
    { EmptyMap,
      [g \in {"multipath/A"} |->
          MultipathInfo(g, SerialOf(g), "Optimal",
                        <<PathInfo("da0", TRUE), PathInfo("da1", FALSE)>>)],
      [g \in {"multipath/A", "multipath/B"} |->
          MultipathInfo(g, SerialOf(g), "Degraded",
                        IF g = "multipath/A" THEN <<PathInfo("da0", TRUE)>>
                                             ELSE <<PathInfo("da2", TRUE)>>)] }

\* run_gmultipath_list: the command cannot be executed, exits with failure,
\* prints bytes that are not UTF-8, or prints a listing.
GmultipathFailures == {"execute_failed", "command_failed", "not_utf8"}

GmultipathOutcomes ==
    {[kind |-> "ok", map |-> m] : m \in MpTopologies}
        \cup {[kind |-> k, map |-> EmptyMap] : k \in GmultipathFailures}

\* MultipathCollector::collect(): the whole call.
MultipathCollect ==
    /\ IF CacheValid(multipath_collector, now)
       THEN /\ last_collect' = [last_collect EXCEPT !["multipath"] =
                   Some(CallRecord(multipath_collector, now,
                                   Ok(Unwrap(multipath_collector.cache)), 0, 0, "none"))]
            /\ UNCHANGED <<now, multipath_collector, refreshed>>
       ELSE \E out \in GmultipathOutcomes, d \in RefreshTimes :
            /\ now + d <= MaxClock
            /\ now' = now + d
            /\ IF out.kind = "ok"
               THEN /\ multipath_collector' =
                          AfterRefresh(multipath_collector, out.map, now')
                    /\ refreshed' = [refreshed EXCEPT !["multipath"] = Some(out.map)]
                    /\ last_collect' = [last_collect EXCEPT !["multipath"] =
                          Some(CallRecord(multipath_collector, now, Ok(out.map),
                                          1, 1, "none"))]
               ELSE /\ multipath_collector' = AfterFailedRefresh(multipath_collector)
                    /\ UNCHANGED refreshed
                    /\ last_collect' = [last_collect EXCEPT !["multipath"] =
                          Some(CallRecord(multipath_collector, now, Err,
                                          1, 1, out.kind))]
    /\ UNCHANGED zfs_collector
    /\ UNCHANGED outsideCache

ZfsDriveInfo(pool, vdev, role, state) ==
    [pool |-> pool, vdev |-> vdev, role |-> role, state |-> state]

\* Pool lists "zpool list -H -o name" can print (its exit status is not read).
PoolLists == {<<>>, <<"tank">>, <<"tank", "backup">>}

\* parse_pool_status(pool): the drives "zpool status <pool>" lists.
PoolStatus(pool) ==
    IF pool = "tank"
    THEN ZfsInput
    ELSE [g \in {"multipath/A", "multipath/B"} |->
             ZfsDriveInfo("backup", "mirror-0", "Data", "ONLINE")]

\* HashMap::extend: entries of e replace entries of m with the same key.
Extend(m, e) ==
    [k \in DOMAIN m \cup DOMAIN e |-> IF k \in DOMAIN e THEN e[k] ELSE m[k]]

\* for pool in pools { drive_map.extend(parse_pool_status(&pool)?) }
RECURSIVE ExtendAll(_, _, _)
ExtendAll(pools, i, drive_map) ==
    IF i > Len(pools) THEN drive_map
    ELSE ExtendAll(pools, i + 1, Extend(drive_map, PoolStatus(pools[i])))

\* One refresh pass of the ZfsCollector: "zpool list" cannot be executed
\* (failAt = 0 with listed = FALSE), or it lists `pools` and "zpool status"
\* of pool number failAt cannot be executed (failAt = 0: none fails).
ZpoolOutcomes ==
    {[listed |-> FALSE, pools |-> <<>>, failAt |-> 0]}
        \cup {[listed |-> TRUE, pools |-> ps, failAt |-> f] :
                 ps \in PoolLists, f \in 0..2}

\* ZfsCollector::collect(): the whole call.
ZfsCollect ==
    /\ IF CacheValid(zfs_collector, now)
       THEN /\ last_collect' = [last_collect EXCEPT !["zfs"] =
                   Some(CallRecord(zfs_collector, now,
                                   Ok(Unwrap(zfs_collector.cache)), 0, 0, "none"))]
            /\ UNCHANGED <<now, zfs_collector, refreshed>>
       ELSE \E out \in ZpoolOutcomes, d \in RefreshTimes :
            /\ out.failAt <= Len(out.pools)
            /\ now + d <= MaxClock
            /\ now' = now + d
            /\ IF out.listed /\ out.failAt = 0
               THEN \E drive_map \in {ExtendAll(out.pools, 1, EmptyMap)} :
                    /\ zfs_collector' = AfterRefresh(zfs_collector, drive_map, now')
                    /\ refreshed' = [refreshed EXCEPT !["zfs"] = Some(drive_map)]
                    /\ last_collect' = [last_collect EXCEPT !["zfs"] =
                          Some(CallRecord(zfs_collector, now, Ok(drive_map),
                                          1, 1 + Len(out.pools), "none"))]
               ELSE /\ zfs_collector' = AfterFailedRefresh(zfs_collector)
                    /\ UNCHANGED refreshed
                    /\ last_collect' = [last_collect EXCEPT !["zfs"] =
                          Some(CallRecord(zfs_collector, now, Err, 1,
                                          IF out.listed THEN 1 + out.failAt ELSE 1,
                                          "execute_failed"))]
    /\ UNCHANGED multipath_collector
    /\ UNCHANGED outsideCache

\* Time passes between two calls.
ClockAdvance ==
    /\ \E d \in Delays :
         /\ now + d <= MaxClock
         /\ now' = now + d
    /\ UNCHANGED <<multipath_collector, zfs_collector, refreshed, last_collect>>
    /\ UNCHANGED outsideCache

InitCorrIdle ==
    /\ physical_disks = <<>>
    /\ multipath_info = EmptyMap
    /\ ses_info = EmptyMap
    /\ zfs_info = EmptyMap
    /\ multipath_devices = <<>>
    /\ standalone_disks = <<>>
    /\ unclaimed = EmptyMap
    /\ cpc = "idle"

InitCache ==
    /\ InitCacheIdle
    /\ InitSesIdle
    /\ InitStateIdle
    /\ InitMainIdle
    /\ InitCorrIdle
    /\ InitTailIdle
    /\ InitGeomIdle

NextCache == MultipathCollect \/ ZfsCollect \/ ClockAdvance

SpecCache == InitCache /\ [][NextCache]_vars

-----------------------------------------------------------------------------
(* Properties of the cached collectors *)

Collectors == {"multipath", "zfs"}

CollectorOf(c) == IF c = "multipath" THEN multipath_collector ELSE zfs_collector

\* The last call of collector c found a cache and a refresh instant.
FoundCache(c) ==
    /\ IsSome(last_collect[c])
    /\ IsSome(Unwrap(last_collect[c]).before.cache)
    /\ IsSome(Unwrap(last_collect[c]).before.last_update)

\* Age of the last successful refresh at the last call of collector c.
AgeAtCall(c) ==
    Unwrap(last_collect[c]).at - Unwrap(Unwrap(last_collect[c]).before.last_update)

C12_FailedRefreshKeepsCache ==
    IsSome(last_collect["multipath"]) =>
        LET r == Unwrap(last_collect["multipath"]) IN
        r.failure \in GmultipathFailures =>
            /\ r.ret = Err
            /\ r.refreshes = 1
            /\ multipath_collector = r.before

\* An expired, non-empty cache survived a listing that was not UTF-8.
C12_Witness ==
    /\ FoundCache("multipath")
    /\ Unwrap(last_collect["multipath"]).failure = "not_utf8"
    /\ AgeAtCall("multipath") >= CACHE_DURATION
    /\ Unwrap(multipath_collector.cache) # EmptyMap

-----------------------------------------------------------------------------
(* SesCollector::collect (src/collectors/ses.rs) *)

\* const ELMTYP_DEVICE: u32 = 0x01; const ELMTYP_ARRAY_DEV: u32 = 0x17
ELMTYP_DEVICE == 1

ELMTYP_ARRAY_DEV == 23

\* At most this many /dev/ses* devices are found.
MaxEnclosures == 2

SesNames == {"ses0", "ses1", "ses2"}

\* format!("/dev/{}", name_str)
DevPath(name) == <<"/dev/", name>>

\* dev_path.strip_prefix("/dev/").unwrap_or(dev_path)
EnclosureName(dev_path) ==
    IF Len(dev_path) = 2 /\ dev_path[1] = "/dev/" THEN dev_path[2] ELSE dev_path

\* One entry of the element map with the names ENCIOC_GETELMDEVNAMES gives.
Element(idx, type, names) == [elm_idx |-> idx, elm_type |-> type, names |-> names]

\* for dev_name in dev_names { if da* or nda* { mappings.insert(..) } }
RECURSIVE InsertDevnames(_, _, _, _, _)
InsertDevnames(mappings, names, i, slot, enc_name) ==
    IF i > Len(names) THEN mappings
    ELSE InsertDevnames(
             IF starts_with(names[i], "da") \/ starts_with(names[i], "nda")
             THEN MapInsert(mappings, names[i], SesSlotInfo(slot, names[i], enc_name))
             ELSE mappings,
             names, i + 1, slot, enc_name)

\* for element in elements.iter(): device slots only, slot = elm_idx
RECURSIVE ScanElements(_, _, _, _)
ScanElements(elements, i, enc_name, mappings) ==
    IF i > Len(elements) THEN mappings
    ELSE ScanElements(elements, i + 1, enc_name,
             IF /\ elements[i].elm_type # ELMTYP_DEVICE
                /\ elements[i].elm_type # ELMTYP_ARRAY_DEV
             THEN mappings
             ELSE InsertDevnames(mappings, elements[i].names, 1,
                                 elements[i].elm_idx, enc_name))

\* scan_enclosure(dev_path): an error when the device cannot be opened or an
\* ioctl fails, else the mappings of its elements.
scan_enclosure(dev_path, scan) ==
    IF scan.ok
    THEN Ok(ScanElements(scan.elements, 1, EnclosureName(dev_path), EmptyMap))
    ELSE Err

\* slot_map.entry(device_name).or_insert(slot_info)
OrInsert_Overwrite(slot_map, k, v) == MapInsert(slot_map, k, v)

OrInsert(slot_map, k, v) ==
    IF k \in DOMAIN slot_map THEN slot_map ELSE MapInsert(slot_map, k, v)

\* for (device_name, slot_info) in mappings: the keys of one HashMap are
\* distinct, so the order of the visit does not change the result.
RECURSIVE MergeMappings(_, _, _)
MergeMappings(slot_map, mappings, keys) ==
    IF keys = {} THEN slot_map
    ELSE LET k == CHOOSE x \in keys : TRUE
         IN  MergeMappings(OrInsert(slot_map, k, mappings[k]), mappings, keys \ {k})

\* for ses_dev in &ses_devices: merge what scans, skip what fails
RECURSIVE ScanAll(_, _, _, _)
ScanAll(devices, scans, i, slot_map) ==
    IF i > Len(devices) THEN slot_map
    ELSE LET r == scan_enclosure(devices[i], scans[devices[i]])
         IN  ScanAll(devices, scans, i + 1,
                     IF r.ok THEN MergeMappings(slot_map, r.map, DOMAIN r.map)
                             ELSE slot_map)

\* SesCollector::collect
ses_collect(devices, scans) ==
    IF devices = None THEN Err
    ELSE Ok(ScanAll(Unwrap(devices), scans, 1, EmptyMap))

\* Element maps an enclosure can report (element type 2 is no device slot).
ElementLists ==
    { <<Element(7, ELMTYP_DEVICE, <<"da3">>)>>,
      <<Element(7, ELMTYP_ARRAY_DEV, <<"da3", "pass3">>),
        Element(8, ELMTYP_DEVICE, <<"da4">>)>>,
      <<Element(2, ELMTYP_DEVICE, <<"da3">>),
        Element(3, 2, <<"da4">>),
        Element(4, ELMTYP_DEVICE, <<"nda0">>)>>,
      <<Element(5, ELMTYP_DEVICE, <<"da4">>),
        Element(6, ELMTYP_DEVICE, <<"da4">>)>> }

ScanOutcomes ==
    {[ok |-> FALSE, elements |-> <<>>]}
        \cup {[ok |-> TRUE, elements |-> l] : l \in ElementLists}

\* Orders in which read_dir can list up to MaxEnclosures enclosure devices.
SesDeviceLists ==
    {l \in UNION {[1..k -> {DevPath(n) : n \in SesNames}] : k \in 0..MaxEnclosures} :
        \A i, j \in DOMAIN l : l[i] = l[j] => i = j}

InitSes ==
    /\ \/ ses_devices = None /\ ses_scans = EmptyMap
       \/ \E l \in SesDeviceLists :
            /\ ses_devices = Some(l)
            /\ ses_scans \in [Range(l) -> ScanOutcomes]
    /\ ses_slot_map = None
    /\ InitCorrIdle
    /\ InitTailIdle
    /\ InitGeomIdle
    /\ InitCacheIdle
    /\ InitStateIdle
    /\ InitMainIdle

\* SesCollector::collect(): the whole call.
SesCollect ==
    /\ ses_slot_map = None
    /\ ses_slot_map' = Some(ses_collect(ses_devices, ses_scans))
    /\ UNCHANGED <<ses_devices, ses_scans>>
    /\ UNCHANGED outsideSes

NextSes == SesCollect

SpecSes == InitSes /\ [][NextSes]_vars

-----------------------------------------------------------------------------
(* Properties of SesCollector::collect *)

SesDone == IsSome(ses_slot_map) /\ Unwrap(ses_slot_map).ok

\* What enclosure number i of the scan order reported (empty if its scan failed).
Reported(i) ==
    LET r == scan_enclosure(Unwrap(ses_devices)[i], ses_scans[Unwrap(ses_devices)[i]])
    IN  IF r.ok THEN r.map ELSE EmptyMap

\* Positions in the scan order of the enclosures that reported name n.
Reporters(n) == {i \in DOMAIN Unwrap(ses_devices) : n \in DOMAIN Reported(i)}

\* C14: after collect() every device name some scanned enclosure reported has
\* exactly one entry, no other name has one, and the entry is the slot and
\* enclosure reported by the first enclosure in scan order that reported it.
C14_FirstEnclosureWins ==
    SesDone =>
        LET m == Unwrap(ses_slot_map).map IN
        /\ DOMAIN m = UNION {DOMAIN Reported(i) : i \in DOMAIN Unwrap(ses_devices)}
        /\ \A n \in DOMAIN m :
              /\ m[n] = Reported(SetMin(Reporters(n)))[n]
              /\ m[n].enclosure = EnclosureName(Unwrap(ses_devices)[SetMin(Reporters(n))])

\* Two enclosures both report da3 at element 7; da3 has slot 7 once,
\* attributed to the enclosure scanned first.
C14_Witness ==
    /\ SesDone
    /\ Len(Unwrap(ses_devices)) = 2
    /\ Reporters("da3") = {1, 2}
    /\ Reported(1)["da3"].slot = 7
    /\ Reported(2)["da3"].slot = 7
    /\ Unwrap(ses_slot_map).map["da3"] = SesSlotInfo(7, "da3", "ses1")
    /\ Unwrap(ses_devices)[2] = DevPath("ses0")

-----------------------------------------------------------------------------
(* AppState (src/ui/state.rs) as the two threads use it: the sampling       *)
(* thread calls update_topology and update_system_stats under one lock      *)
(* (main.rs), run_app calls set_terminal_width under one lock and clones    *)
(* the state under the next (src/ui/app.rs).  The eight storage_* buffers   *)
(* are pushed and trimmed in lockstep; the first and the last of them are   *)
(* modelled.  Rates are integers.                                           *)

\* The sampling thread installs at most this many updates.
MaxTicks == 3

\* Widths terminal.size() can report.
Widths == {20, 31, 32}

Max(a, b) == IF a >= b THEN a ELSE b

\* vec![0.0; n]
Zeros(n) == [i \in 1..n |-> 0]

RECURSIVE SumSeq(_)
SumSeq(q) == IF q = <<>> THEN 0 ELSE Head(q) + SumSeq(Tail(q))

\* (width as usize * 2).max(MIN_HISTORY_SIZE)
HistorySizeFor(width) == Max(width * 2, MIN_HISTORY_SIZE)

\* AppState::set_terminal_width
set_terminal_width(s, width) ==
    LET new_size == HistorySizeFor(width)
        s1 == IF s.storage_read_iops_history = <<>>
              THEN [s EXCEPT !.storage_read_iops_history = Zeros(new_size),
                             !.storage_busy_history = Zeros(new_size)]
              ELSE s
        s2 == IF s1.cpu_aggregate_history = <<>>
              THEN [s1 EXCEPT !.cpu_aggregate_history = Zeros(new_size)]
              ELSE s1
    IN  [s2 EXCEPT !.history_size = new_size]

\* Mutant of trim_history: nothing is removed.
trim_history_Never(history, max_size) == history

\* Mutant of trim_history: pop_back in place of pop_front.
RECURSIVE trim_history_PopBack(_, _)
trim_history_PopBack(history, max_size) ==
    IF Len(history) > max_size
    THEN trim_history_PopBack(SubSeq(history, 1, Len(history) - 1), max_size)
    ELSE history

\* AppState::trim_history: while history.len() > max_size { pop_front() }
RECURSIVE trim_history(_, _)
trim_history(history, max_size) ==
    IF Len(history) > max_size
    THEN trim_history(Tail(history), max_size)
    ELSE history

\* history.push_back(v); Self::trim_history(history, history_size)
PushSample(history, v, history_size) ==
    trim_history(Append(history, v), history_size)

\* The entry() ... or_insert_with(zeros) ... push_back ... trim loop over
\* `items`, keyed by name, with sample(item) the value pushed.
RECURSIVE PushEach(_, _, _, _, _)
PushEach(histories, names, samples, i, history_size) ==
    IF i > Len(names) THEN histories
    ELSE LET old == IF names[i] \in DOMAIN histories
                    THEN histories[names[i]]
                    ELSE Zeros(history_size)
         IN  PushEach(MapInsert(histories, names[i],
                                PushSample(old, samples[i], history_size)),
                      names, samples, i + 1, history_size)

\* Mutant of RetainPresent: nothing is removed.
RetainPresent_KeepAll(histories, names) == histories

\* HashMap::retain(|name, _| names contains name)
RetainPresent(histories, names) ==
    [n \in {k \in DOMAIN histories : k \in Range(names)} |-> histories[n]]

NamesOf(items) == [i \in DOMAIN items |-> items[i].name]

\* AppState::update_topology
update_topology(s, devices, standalone) ==
    LET history_size == s.history_size
        total_read_iops ==
            SumSeq([i \in DOMAIN devices |-> devices[i].statistics.read_iops])
        avg_busy ==
            IF devices # <<>>
            THEN SumSeq([i \in DOMAIN devices |-> devices[i].statistics.busy_pct])
                     \div Len(devices)
            ELSE 0
        pushed == PushEach(s.drive_busy_history, NamesOf(devices),
                           [i \in DOMAIN devices |-> devices[i].statistics.busy_pct],
                           1, history_size)
    IN  [s EXCEPT
            !.storage_read_iops_history =
                PushSample(s.storage_read_iops_history, total_read_iops, history_size),
            !.storage_busy_history =
                PushSample(s.storage_busy_history, avg_busy, history_size),
            !.drive_busy_history = RetainPresent(pushed, NamesOf(devices)),
            !.multipath_devices = devices,
            !.standalone_disks = standalone]

\* AppState::update_system_stats (vms and jails keep no history)
update_system_stats(s, cores, used_pct, network_stats) ==
    LET history_size == s.history_size
        fresh == IF Len(s.cpu_history) # Len(cores)
                 THEN [i \in DOMAIN cores |-> <<>>]
                 ELSE s.cpu_history
        avg_cpu == IF cores # <<>> THEN SumSeq(cores) \div Len(cores) ELSE 0
        pushed == PushEach(s.network_history, NamesOf(network_stats),
                           [i \in DOMAIN network_stats |-> network_stats[i].bw],
                           1, history_size)
    IN  [s EXCEPT
            !.cpu_history =
                [i \in DOMAIN cores |-> PushSample(fresh[i], cores[i], history_size)],
            !.cpu_aggregate_history =
                PushSample(s.cpu_aggregate_history, avg_cpu, history_size),
            !.memory_history = PushSample(s.memory_history, used_pct, history_size),
            !.network_history = RetainPresent(pushed, NamesOf(network_stats))]

\* A MultipathDevice as update_topology reads it.
Device(name, read_iops, busy_pct) ==
    [name |-> name, statistics |-> DiskStatistics(read_iops, busy_pct)]

\* Results of correlate handed to update_topology.
TopologyInputs ==
    { [devices |-> <<>>, standalone |-> <<>>],
      [devices |-> <<Device("multipath/A", 120, 30)>>,
       standalone |-> <<PhysicalDisk("da2", Some(1), None, DiskStatistics(35, 10))>>],
      [devices |-> <<Device("multipath/A", 120, 30), Device("multipath/B", 35, 10)>>,
       standalone |-> <<>>] }

\* Results of the cpu, memory and network collectors.
SystemInputs ==
    { [cores |-> <<>>, used_pct |-> 10, network |-> <<>>],
      [cores |-> <<40, 80>>, used_pct |-> 20,
       network |-> <<[name |-> "em0", bw |-> 100]>>] }

\* run_app: terminal.size(), then lock and set_terminal_width.
SetTerminalWidth ==
    /\ rpc = "size"
    /\ \E width \in Widths :
         /\ app_state' = set_terminal_width(app_state, width)
         /\ widest' = Max(widest, HistorySizeFor(width))
         /\ term_width' = Some(width)
    /\ rpc' = "clone"
    /\ UNCHANGED <<current_state, ticks>>
    /\ UNCHANGED outsideState

\* run_app: lock and clone the state for rendering.
CloneState ==
    /\ rpc = "clone"
    /\ current_state' = Some(app_state)
    /\ rpc' = "draw"
    /\ UNCHANGED <<app_state, term_width, ticks, widest>>
    /\ UNCHANGED outsideState

\* run_app: draw the frame and poll for input; the clone is dropped at the
\* end of the iteration.
Draw ==
    /\ rpc = "draw"
    /\ current_state' = None
    /\ rpc' = "size"
    /\ UNCHANGED <<app_state, term_width, ticks, widest>>
    /\ UNCHANGED outsideState

\* main: lock, update_topology, update_system_stats, unlock.
SamplerUpdate ==
    /\ ticks < MaxTicks
    /\ \E t \in TopologyInputs, y \in SystemInputs :
         app_state' = update_system_stats(
                          update_topology(app_state, t.devices, t.standalone),
                          y.cores, y.used_pct, y.network)
    /\ ticks' = ticks + 1
    /\ widest' = app_state.history_size
    /\ UNCHANGED <<current_state, rpc, term_width>>
    /\ UNCHANGED outsideState

InitState ==
    /\ InitStateIdle
    /\ InitCorrIdle
    /\ InitTailIdle
    /\ InitGeomIdle
    /\ InitCacheIdle
    /\ InitSesIdle
    /\ InitMainIdle

NextState == SetTerminalWidth \/ CloneState \/ Draw \/ SamplerUpdate

SpecState == InitState /\ [][NextState]_vars

-----------------------------------------------------------------------------
(* Properties of the history buffers *)

\* The storage-aggregate and per-device buffers of state s.
StorageBuffers(s) ==
    {s.storage_read_iops_history, s.storage_busy_history}
        \cup Range(s.drive_busy_history)

\* Every history buffer of state s.
AllBuffers(s) ==
    StorageBuffers(s)
        \cup {s.cpu_aggregate_history, s.memory_history}
        \cup Range(s.cpu_history)
        \cup Range(s.network_history)

LastOf(h) == h[Len(h)]

\* new is old without its oldest sample, followed by v.
Fifo(old, new, v) == new = Append(Tail(old), v)

\* The step is one sampling update.
IsUpdate == ticks' = ticks + 1

\* C15: a sampling update that appends to a buffer holding history_size
\* samples leaves it history_size long, without its oldest sample, the other
\* samples in their order and the new sample last.  The new sample of the
\* read-IOPS buffer is the sum over the devices of the tick, that of a
\* per-device buffer the device's busy percentage.
C15_FullBufferFifo ==
    [][IsUpdate =>
        LET cap  == app_state.history_size
            devs == app_state'.multipath_devices
        IN  /\ Len(app_state.storage_read_iops_history) = cap =>
                  Fifo(app_state.storage_read_iops_history,
                       app_state'.storage_read_iops_history,
                       SumSeq([i \in DOMAIN devs |-> devs[i].statistics.read_iops]))
            /\ \A f \in {"storage_busy_history", "cpu_aggregate_history",
                         "memory_history"} :
                  Len(app_state[f]) = cap =>
                      /\ Len(app_state'[f]) = cap
                      /\ Fifo(app_state[f], app_state'[f], LastOf(app_state'[f]))
            /\ \A i \in DOMAIN devs :
                  /\ devs[i].name \in DOMAIN app_state.drive_busy_history
                  /\ Len(app_state.drive_busy_history[devs[i].name]) = cap
                  => Fifo(app_state.drive_busy_history[devs[i].name],
                          app_state'.drive_busy_history[devs[i].name],
                          devs[i].statistics.busy_pct)
    ]_vars

\* Two updates were appended to full buffers: the pre-filled zeros moved up
\* and the two samples are last, in order.
C15_Witness ==
    /\ ticks = 2
    /\ Len(app_state.storage_read_iops_history) = app_state.history_size
    /\ app_state.storage_read_iops_history[1] = 0
    /\ SubSeq(app_state.storage_read_iops_history,
              app_state.history_size - 1, app_state.history_size) = <<120, 155>>
    /\ "multipath/A" \in DOMAIN app_state.drive_busy_history
    /\ Len(app_state.drive_busy_history["multipath/A"]) = app_state.history_size
    /\ SubSeq(app_state.drive_busy_history["multipath/A"],
              app_state.history_size - 1, app_state.history_size) = <<30, 30>>

\* C16: the keys of drive_busy_history are exactly the names of the
\* MultipathDevices of the last update_topology.
C16_HistoryKeysArePresentDevices ==
    DOMAIN app_state.drive_busy_history = Range(NamesOf(app_state.multipath_devices))

\* multipath/B was present in the previous update and is absent from the
\* last one: its buffer is gone, that of multipath/A remains.
C16_Witness ==
    /\ ticks = 2
    /\ NamesOf(app_state.multipath_devices) = <<"multipath/A">>
    /\ DOMAIN app_state.drive_busy_history = {"multipath/A"}
    /\ Len(app_state.storage_read_iops_history) >= 2
    /\ SubSeq(app_state.storage_read_iops_history,
              Len(app_state.storage_read_iops_history) - 1,
              Len(app_state.storage_read_iops_history)) = <<155, 120>>

\* C17 as stated: a storage-aggregate or per-device buffer that has been used
\* holds at least a full pre-fill, in every interleaving of the two threads.
C17_AsStated ==
    \A h \in StorageBuffers(app_state) : h = <<>> \/ Len(h) >= MIN_HISTORY_SIZE

\* C18 as stated: no buffer of a state cloned by run_app holds more samples
\* than that state's history_size.
C18_AsStated ==
    IsSome(current_state) =>
        \A h \in AllBuffers(Unwrap(current_state)) :
            Len(h) <= Unwrap(current_state).history_size

\* C18: history_size is max(2 x width, MIN_HISTORY_SIZE) for the width last
\* reported; a buffer is trimmed only by the sampling update that appends to
\* it, so no buffer holds more samples than the largest history_size in force
\* since the last sampling update (after a sampling update: the current one),
\* and no buffer of a cloned state more than the largest history_size there is.
C18_TrimmedAtNextUpdate ==
    /\ IsSome(term_width) =>
          app_state.history_size = Max(2 * Unwrap(term_width), MIN_HISTORY_SIZE)
    /\ app_state.history_size >= MIN_HISTORY_SIZE
    /\ widest >= app_state.history_size
    /\ \A h \in AllBuffers(app_state) : Len(h) <= widest
    /\ IsSome(current_state) =>
          \A h \in AllBuffers(Unwrap(current_state)) :
              Len(h) <= SetMax({HistorySizeFor(w) : w \in Widths})

\* The width shrank from 32 to 20 after samples were taken: the state about
\* to be cloned has history_size 60 and buffers of 64 samples.
C18_Witness ==
    /\ rpc = "clone"
    /\ ticks >= 1
    /\ term_width = Some(20)
    /\ app_state.history_size = 60
    /\ widest = 64
    /\ Len(app_state.storage_read_iops_history) = 64
    /\ "multipath/A" \in DOMAIN app_state.drive_busy_history
    /\ Len(app_state.drive_busy_history["multipath/A"]) = 64

-----------------------------------------------------------------------------
(* main() (src/main.rs) and run_tui()/run_app() (src/ui/app.rs) as two      *)
(* threads sharing Arc<Mutex<AppState>>.  Data is abstracted to the tick    *)
(* that produced it: a collector's output is the pair of the tick in which  *)
(* collect() was called and the tick in which the data was read from the    *)
(* system, and the shared state records the tick each part was installed    *)
(* from.  Statements that touch only thread-local data are merged into one  *)
(* step; every lock(), and every statement under a lock, is a step.         *)

\* The sampling thread begins at most this many ticks.
MaxSamples == 2

\* A collector's output: collect() was called in tick `called`, the data was
\* read from the system in tick `read` (earlier when served from a
\* cache), and `empty` tells that an empty map stands in for a failure.
Source(called, read, empty) ==
    [called |-> called, refreshed |-> read, empty |-> empty]

\* Mutex::lock() returns when no thread holds the lock.
MutexFree_Always(m) == TRUE

MutexFree(m) == m = "none"

\* JoinHandle::is_finished
is_finished_Never(t) == FALSE

is_finished(t) == t = "finished"

\* main.rs 42-66: the one SES collection (an error becomes an empty map),
\* the shared state, the TUI thread.
MainStartup ==
    /\ spc = "startup"
    /\ \E outcome \in {"ok", "failed"} : ses_source' = outcome
    /\ tpc' = "setup"
    /\ spc' = "top"
    /\ UNCHANGED <<mutex, sample_no, cur, caches, shared, snapshot, ticks_at_finish>>
    /\ UNCHANGED outsideMain

\* main.rs 70-72: if tui_handle.is_finished() { break; }
CheckFinished ==
    /\ spc = "top"
    /\ spc' = IF is_finished(tpc) THEN "join" ELSE "elapsed"
    /\ UNCHANGED <<tpc, mutex, sample_no, cur, caches, ses_source, shared,
                   snapshot, ticks_at_finish>>
    /\ UNCHANGED outsideMain

\* main.rs 75-76: the refresh interval has elapsed and a tick begins, or it
\* has not.
CheckElapsed ==
    /\ spc = "elapsed"
    /\ \/ /\ sample_no < MaxSamples
          /\ sample_no' = sample_no + 1
          /\ cur' = NoTick
          /\ spc' = "geom"
       \/ /\ spc' = "sleep"
          /\ UNCHANGED <<sample_no, cur>>
    /\ UNCHANGED <<tpc, mutex, caches, ses_source, shared, snapshot, ticks_at_finish>>
    /\ UNCHANGED outsideMain

\* main.rs 174: std::thread::sleep(50 ms)
Sleep ==
    /\ spc = "sleep"
    /\ spc' = "top"
    /\ UNCHANGED <<tpc, mutex, sample_no, cur, caches, ses_source, shared,
                   snapshot, ticks_at_finish>>
    /\ UNCHANGED outsideMain

\* main.rs 79-85: geom_collector.collect(); an error ends the tick (continue).
CollectGeom ==
    /\ spc = "geom"
    /\ \/ cur' = [cur EXCEPT !.geom = "ok"] /\ spc' = "multipath"
       \/ cur' = [cur EXCEPT !.geom = "err"] /\ spc' = "top"
    /\ UNCHANGED <<tpc, mutex, sample_no, caches, ses_source, shared, snapshot,
                   ticks_at_finish>>
    /\ UNCHANGED outsideMain

\* main.rs 88-94: multipath_collector.collect() serves its cache, refreshes,
\* or fails; an error ends the tick (continue).
CollectMultipath ==
    /\ spc = "multipath"
    /\ \/ /\ IsSome(caches["multipath"])
          /\ cur' = [cur EXCEPT
                        !.multipath = "ok",
                        !.multipath_info =
                            Some(Source(sample_no, Unwrap(caches["multipath"]), FALSE))]
          /\ spc' = "zfs"
          /\ UNCHANGED caches
       \/ /\ cur' = [cur EXCEPT
                        !.multipath = "ok",
                        !.multipath_info = Some(Source(sample_no, sample_no, FALSE))]
          /\ caches' = [caches EXCEPT !["multipath"] = Some(sample_no)]
          /\ spc' = "zfs"
       \/ /\ cur' = [cur EXCEPT !.multipath = "err"]
          /\ spc' = "top"
          /\ UNCHANGED caches
    /\ UNCHANGED <<tpc, mutex, sample_no, ses_source, shared, snapshot, ticks_at_finish>>
    /\ UNCHANGED outsideMain

\* main.rs 97-103: zfs_collector.collect() serves its cache, refreshes, or
\* fails; an error becomes an empty map.
CollectZfs ==
    /\ spc = "zfs"
    /\ \/ /\ IsSome(caches["zfs"])
          /\ cur' = [cur EXCEPT
                        !.zfs = "ok",
                        !.zfs_info = Some(Source(sample_no, Unwrap(caches["zfs"]), FALSE))]
          /\ UNCHANGED caches
       \/ /\ cur' = [cur EXCEPT
                        !.zfs = "ok",
                        !.zfs_info = Some(Source(sample_no, sample_no, FALSE))]
          /\ caches' = [caches EXCEPT !["zfs"] = Some(sample_no)]
       \/ /\ cur' = [cur EXCEPT
                        !.zfs = "err",
                        !.zfs_info = Some(Source(sample_no, sample_no, TRUE))]
          /\ UNCHANGED caches
    /\ spc' = "correlate"
    /\ UNCHANGED <<tpc, mutex, sample_no, ses_source, shared, snapshot, ticks_at_finish>>
    /\ UNCHANGED outsideMain

\* main.rs 106-144: correlate(physical_disks, multipath_info,
\* ses_info.clone(), zfs_info), then the cpu, memory and network collectors.
CorrelateTick ==
    /\ spc = "correlate"
    /\ cur' = [cur EXCEPT
                  !.sources = Some([geom      |-> sample_no,
                                    multipath |-> Unwrap(cur.multipath_info),
                                    zfs       |-> Unwrap(cur.zfs_info),
                                    ses       |-> Source(0, 0, ses_source = "failed")]),
                  !.result = Some(sample_no)]
    /\ spc' = "slow"
    /\ UNCHANGED <<tpc, mutex, sample_no, caches, ses_source, shared, snapshot,
                   ticks_at_finish>>
    /\ UNCHANGED outsideMain

\* main.rs 147-163: the slow interval has elapsed and VMs and jails are
\* collected, or the previous values are read from the shared state.
SlowCollect ==
    /\ spc = "slow"
    /\ \/ spc' = "lock_update"
       \/ spc' = "slow_lock"
    /\ UNCHANGED <<tpc, mutex, sample_no, cur, caches, ses_source, shared,
                   snapshot, ticks_at_finish>>
    /\ UNCHANGED outsideMain

\* main.rs 161: app_state.lock()
SlowLock ==
    /\ spc = "slow_lock"
    /\ MutexFree(mutex)
    /\ mutex' = "sampler"
    /\ spc' = "slow_read"
    /\ UNCHANGED <<tpc, sample_no, cur, caches, ses_source, shared, snapshot,
                   ticks_at_finish>>
    /\ UNCHANGED outsideMain

\* main.rs 162-163: clone vms and jails, drop the guard
SlowRead ==
    /\ spc = "slow_read"
    /\ mutex' = "none"
    /\ spc' = "lock_update"
    /\ UNCHANGED <<tpc, sample_no, cur, caches, ses_source, shared, snapshot,
                   ticks_at_finish>>
    /\ UNCHANGED outsideMain

\* main.rs 167: app_state.lock()
LockUpdate ==
    /\ spc = "lock_update"
    /\ MutexFree(mutex)
    /\ mutex' = "sampler"
    /\ spc' = "update_history"
    /\ UNCHANGED <<tpc, sample_no, cur, caches, ses_source, shared, snapshot,
                   ticks_at_finish>>
    /\ UNCHANGED outsideMain

\* state.rs 163-203: update_topology pushes onto the histories
UpdateHistory ==
    /\ spc = "update_history"
    /\ shared' = [shared EXCEPT !.history = Unwrap(cur.result)]
    /\ spc' = "update_lists"
    /\ UNCHANGED <<tpc, mutex, sample_no, cur, caches, ses_source, snapshot,
                   ticks_at_finish>>
    /\ UNCHANGED outsideMain

\* state.rs 205-206: update_topology stores the two lists
UpdateLists ==
    /\ spc = "update_lists"
    /\ shared' = [shared EXCEPT !.devices = Unwrap(cur.result),
                                !.standalone = Unwrap(cur.result),
                                !.sources = cur.sources]
    /\ spc' = "update_system"
    /\ UNCHANGED <<tpc, mutex, sample_no, cur, caches, ses_source, snapshot,
                   ticks_at_finish>>
    /\ UNCHANGED outsideMain

\* main.rs 169-170: update_system_stats, then the guard is dropped
UpdateSystem ==
    /\ spc = "update_system"
    /\ shared' = [shared EXCEPT !.system = Unwrap(cur.result)]
    /\ mutex' = "none"
    /\ spc' = "sleep"
    /\ UNCHANGED <<tpc, sample_no, cur, caches, ses_source, snapshot, ticks_at_finish>>
    /\ UNCHANGED outsideMain

\* main.rs 178: tui_handle.join() returns when the thread has finished
Join ==
    /\ spc = "join"
    /\ tpc = "finished"
    /\ spc' = "exited"
    /\ UNCHANGED <<tpc, mutex, sample_no, cur, caches, ses_source, shared,
                   snapshot, ticks_at_finish>>
    /\ UNCHANGED outsideMain

\* app.rs 24-28: terminal setup; an error returns from run_tui at once
TuiSetup ==
    /\ tpc = "setup"
    /\ \/ tpc' = "size" /\ UNCHANGED ticks_at_finish
       \/ tpc' = "finished" /\ ticks_at_finish' = Some(sample_no)
    /\ UNCHANGED <<spc, mutex, sample_no, cur, caches, ses_source, shared, snapshot>>
    /\ UNCHANGED outsideMain

\* app.rs 48: terminal.size()?
TuiSize ==
    /\ tpc = "size"
    /\ \/ tpc' = "lock_width"
       \/ tpc' = "restore"
    /\ UNCHANGED <<spc, mutex, sample_no, cur, caches, ses_source, shared,
                   snapshot, ticks_at_finish>>
    /\ UNCHANGED outsideMain

\* app.rs 50: state.lock()
TuiLockWidth ==
    /\ tpc = "lock_width"
    /\ MutexFree(mutex)
    /\ mutex' = "tui"
    /\ tpc' = "set_width"
    /\ UNCHANGED <<spc, sample_no, cur, caches, ses_source, shared, snapshot,
                   ticks_at_finish>>
    /\ UNCHANGED outsideMain

\* app.rs 51-52: set_terminal_width, drop the guard
TuiSetWidth ==
    /\ tpc = "set_width"
    /\ mutex' = "none"
    /\ tpc' = "lock_clone"
    /\ UNCHANGED <<spc, sample_no, cur, caches, ses_source, shared, snapshot,
                   ticks_at_finish>>
    /\ UNCHANGED outsideMain

\* app.rs 56: state.lock()
TuiLockClone ==
    /\ tpc = "lock_clone"
    /\ MutexFree(mutex)
    /\ mutex' = "tui"
    /\ tpc' = "clone"
    /\ UNCHANGED <<spc, sample_no, cur, caches, ses_source, shared, snapshot,
                   ticks_at_finish>>
    /\ UNCHANGED outsideMain

\* app.rs 57-58: state_guard.clone(), drop the guard
TuiClone ==
    /\ tpc = "clone"
    /\ snapshot' = Some(shared)
    /\ mutex' = "none"
    /\ tpc' = "draw"
    /\ UNCHANGED <<spc, sample_no, cur, caches, ses_source, shared, ticks_at_finish>>
    /\ UNCHANGED outsideMain

\* app.rs 61-129: terminal.draw(..)?
TuiDraw ==
    /\ tpc = "draw"
    /\ \/ tpc' = "poll"
       \/ tpc' = "restore"
    /\ UNCHANGED <<spc, mutex, sample_no, cur, caches, ses_source, shared,
                   snapshot, ticks_at_finish>>
    /\ UNCHANGED outsideMain

\* app.rs 132-138: event::poll and event::read: nothing or another key, a
\* quit key (q, Q, Esc), or an error
TuiPoll ==
    /\ tpc = "poll"
    /\ \/ tpc' = "lock_check"
       \/ tpc' = "lock_quit"
       \/ tpc' = "restore"
    /\ UNCHANGED <<spc, mutex, sample_no, cur, caches, ses_source, shared,
                   snapshot, ticks_at_finish>>
    /\ UNCHANGED outsideMain

\* app.rs 204: state.lock() in handle_key_event
TuiLockQuit ==
    /\ tpc = "lock_quit"
    /\ MutexFree(mutex)
    /\ mutex' = "tui"
    /\ tpc' = "quit"
    /\ UNCHANGED <<spc, sample_no, cur, caches, ses_source, shared, snapshot,
                   ticks_at_finish>>
    /\ UNCHANGED outsideMain

\* app.rs 205-206 and 134-135: quit(), drop the guard, break
TuiQuit ==
    /\ tpc = "quit"
    /\ shared' = [shared EXCEPT !.should_quit = TRUE]
    /\ mutex' = "none"
    /\ tpc' = "restore"
    /\ UNCHANGED <<spc, sample_no, cur, caches, ses_source, snapshot, ticks_at_finish>>
    /\ UNCHANGED outsideMain

\* app.rs 142: state.lock()
TuiLockCheck ==
    /\ tpc = "lock_check"
    /\ MutexFree(mutex)
    /\ mutex' = "tui"
    /\ tpc' = "check_quit"
    /\ UNCHANGED <<spc, sample_no, cur, caches, ses_source, shared, snapshot,
                   ticks_at_finish>>
    /\ UNCHANGED outsideMain

\* app.rs 143-147: break if should_quit, else the next iteration; the clone
\* of this iteration is dropped
TuiCheckQuit ==
    /\ tpc = "check_quit"
    /\ mutex' = "none"
    /\ tpc' = IF shared.should_quit THEN "restore" ELSE "size"
    /\ snapshot' = None
    /\ UNCHANGED <<spc, sample_no, cur, caches, ses_source, shared, ticks_at_finish>>
    /\ UNCHANGED outsideMain

\* app.rs 33-42: restore the terminal and return; the thread has finished
TuiRestore ==
    /\ tpc = "restore"
    /\ tpc' = "finished"
    /\ ticks_at_finish' = Some(sample_no)
    /\ UNCHANGED <<spc, mutex, sample_no, cur, caches, ses_source, shared, snapshot>>
    /\ UNCHANGED outsideMain

SamplerStep ==
    \/ MainStartup \/ CheckFinished \/ CheckElapsed \/ Sleep
    \/ CollectGeom \/ CollectMultipath \/ CollectZfs \/ CorrelateTick
    \/ SlowCollect \/ SlowLock \/ SlowRead
    \/ LockUpdate \/ UpdateHistory \/ UpdateLists \/ UpdateSystem
    \/ Join

TuiStep ==
    \/ TuiSetup \/ TuiSize \/ TuiLockWidth \/ TuiSetWidth
    \/ TuiLockClone \/ TuiClone \/ TuiDraw \/ TuiPoll
    \/ TuiLockQuit \/ TuiQuit \/ TuiLockCheck \/ TuiCheckQuit
    \/ TuiRestore

InitMain ==
    /\ InitMainIdle
    /\ InitCorrIdle
    /\ InitTailIdle
    /\ InitGeomIdle
    /\ InitCacheIdle
    /\ InitSesIdle
    /\ InitStateIdle

NextMain == SamplerStep \/ TuiStep

SpecMain == InitMain /\ [][NextMain]_vars

\* Both threads are scheduled, and a thread waiting in lock() gets the lock:
\* the sampling thread holds it for one bounded update per tick and sleeps
\* between ticks.
SpecMainFair ==
    /\ SpecMain
    /\ WF_vars(SamplerStep)
    /\ WF_vars(TuiStep)
    /\ SF_vars(TuiLockQuit)

-----------------------------------------------------------------------------
(* Properties of the sampling loop and the two threads *)

\* The sampling thread is between ticks: the last tick begun has ended.
TickEnded ==
    /\ sample_no >= 1
    /\ spc \in {"top", "elapsed", "sleep", "join", "exited"}

\* One of the three readers failed for the tick that has just ended.
ReaderFailed ==
    \/ ses_source = "failed"
    \/ cur.multipath = "err"
    \/ cur.zfs = "err"

\* C13 as stated: a tick whose disk statistics were collected and in which
\* the path-group reader, the slot mapper or the pool-role reader failed
\* still ran the Correlator and installed its result in the shared state.
C13_AsStated ==
    TickEnded /\ cur.geom = "ok" /\ ReaderFailed =>
        /\ cur.result = Some(sample_no)
        /\ shared.devices = sample_no

\* The parts of a state s that one update installs carry the same tick.
OneTick(s) ==
    /\ s.devices = s.standalone
    /\ s.devices = s.history
    /\ s.devices = s.system

\* collect() of the three per-tick collectors was called in the tick the
\* installed lists of s come from.
CalledInTick(s) ==
    /\ Unwrap(s.sources).geom = s.devices
    /\ Unwrap(s.sources).multipath.called = s.devices
    /\ Unwrap(s.sources).zfs.called = s.devices

\* C19 as stated: every clone holds lists and history of one tick, and all
\* four source outputs correlated for it were gathered in that tick.
C19_AsStated ==
    IsSome(snapshot) /\ Unwrap(snapshot).devices >= 1 =>
        /\ OneTick(Unwrap(snapshot))
        /\ CalledInTick(Unwrap(snapshot))
        /\ Unwrap(Unwrap(snapshot).sources).ses.called = Unwrap(snapshot).devices

\* C19: every clone holds device list, standalone list, histories and system
\* statistics installed by one and the same tick; the disk statistics, the
\* path groups and the pool roles correlated for it were returned by
\* collect() calls of that tick (path groups and pool roles possibly read
\* from the system in an earlier tick and served from the cache), and the
\* slot map is the one collected once at startup, before the first tick.
C19_SnapshotOfOneTick ==
    IsSome(snapshot) =>
        LET s == Unwrap(snapshot) IN
        /\ OneTick(s)
        /\ s.devices = 0 => s.sources = None
        /\ s.devices >= 1 =>
              /\ CalledInTick(s)
              /\ Unwrap(s.sources).multipath.refreshed \in 1..s.devices
              /\ Unwrap(s.sources).zfs.refreshed \in 1..s.devices
              /\ Unwrap(s.sources).ses.called = 0

\* A clone of the second tick's state, taken while nothing is being
\* installed: its path groups were served from the cache filled in tick 1.
C19_Witness ==
    /\ IsSome(snapshot)
    /\ Unwrap(snapshot).devices = 2
    /\ Unwrap(snapshot).history = 2
    /\ Unwrap(Unwrap(snapshot).sources).multipath = Source(2, 1, FALSE)
    /\ tpc = "draw"

\* The sampling thread has seen is_finished() return true.
Observed == spc \in {"join", "exited"}

\* A quit key has been read.
QuitRequested == tpc \in {"lock_quit", "quit"} \/ shared.should_quit

\* C20: once the sampling thread has observed the TUI thread finished it
\* begins no tick and stays out of its loop; at most one tick begins between
\* the thread finishing and that observation; a tick in flight when the TUI
\* thread has finished still installs its result; and under fair scheduling
\* a quit request, like any finish of the TUI thread, is followed by the
\* termination of both threads.
C20_QuitTerminatesBothThreads ==
    /\ [][Observed => sample_no' = sample_no /\ Observed']_vars
    /\ [](IsSome(ticks_at_finish) => sample_no - Unwrap(ticks_at_finish) <= 1)
    /\ \A n \in 1..(MaxSamples + 1) :
          (tpc = "finished" /\ spc = "lock_update" /\ sample_no = n)
              ~> (shared.devices = n)
    /\ QuitRequested ~> (tpc = "finished" /\ spc = "exited")
    /\ (tpc = "finished") ~> (spc = "exited")

\* The user quit; a tick begun after the TUI thread had finished ran to its
\* end and was installed; both threads have terminated.
C20_Witness ==
    /\ tpc = "finished"
    /\ spc = "exited"
    /\ shared.should_quit
    /\ sample_no = Unwrap(ticks_at_finish) + 1
    /\ shared.devices = sample_no

-----------------------------------------------------------------------------
(* main(): the slow cadence of the VM and jail enumeration (main.rs 64-175) *)
(* against a clock in milliseconds.                                         *)

\* The clock stops here.
MaxMillis == 4500

\* --refresh values (clap range 50..=10000, default 250)
Refreshes == {50, 250, 300}

\* How long thread::sleep(50 ms) takes: at least the requested time.
SleepTimes == {50, 1000}

\* How long the collectors of one tick take.
CollectTimes == {0, 100}

\* What bhyve_collector.collect() and jail_collector.collect() can return;
\* unwrap_or_else turns an error into the empty Vec.
VmLists == {<<>>, <<"vm1", "vm0">>}
JailLists == {<<>>, <<"jail0">>}

\* main.rs 147, without the floor
slow_interval_NoFloor(r) == r * 8

\* main.rs 147: (args.refresh * 8).max(2000); u64, no overflow for
\* refresh <= 10000
slow_interval(r) == Max(r * 8, 2000)

\* Instant::elapsed()
ElapsedSince(since) == clock - since

\* main.rs 65-66 reached with a parsed --refresh.
InitSlow ==
    /\ refresh \in Refreshes
    /\ clock = 0
    /\ last_update = 0
    /\ last_slow_update = 0
    /\ lpc = "top"
    /\ guard = "none"
    /\ vms_jails = None
    /\ state_vms_jails = <<<<>>, <<>>>>
    /\ slow_log = NoSlowLog
    /\ InitParseIdle
    /\ InitZpoolIdle
    /\ InitCorrIdle
    /\ InitGeomIdle
    /\ InitCacheIdle
    /\ InitSesIdle
    /\ InitStateIdle
    /\ InitMainIdle

\* main.rs 70-76: leave the loop when the TUI thread has finished; else
\* begin a tick if the refresh interval has elapsed, or go to sleep.
CadenceTop ==
    /\ lpc = "top"
    /\ \/ /\ lpc' = "exited"
          /\ UNCHANGED <<last_update, slow_log>>
       \/ /\ ElapsedSince(last_update) >= refresh
          /\ last_update' = clock
          /\ lpc' = "collect"
          /\ slow_log' = [slow_log EXCEPT !.tick_enumerated = FALSE,
                                          !.tick_invoked = FALSE]
       \/ /\ ~(ElapsedSince(last_update) >= refresh)
          /\ lpc' = "sleep"
          /\ UNCHANGED <<last_update, slow_log>>
    /\ UNCHANGED <<clock, refresh, last_slow_update, guard, vms_jails,
                   state_vms_jails>>
    /\ UNCHANGED outsideSlow

\* main.rs 79-144: the per-tick collectors and correlate; an error of the
\* GEOM or the multipath collector is `continue`.
CadenceCollect ==
    /\ lpc = "collect"
    /\ \E d \in CollectTimes :
          /\ clock + d <= MaxMillis
          /\ clock' = clock + d
    /\ \/ lpc' = "slow"
       \/ lpc' = "top"
    /\ UNCHANGED <<refresh, last_update, last_slow_update, guard, vms_jails,
                   state_vms_jails, slow_log>>
    /\ UNCHANGED outsideSlow

\* main.rs 147-149 and 159: the test of the slow interval
CadenceCheck ==
    /\ lpc = "slow"
    /\ IF ElapsedSince(last_slow_update) >= slow_interval(refresh)
       THEN /\ last_slow_update' = clock
            /\ lpc' = "enumerate"
            /\ slow_log' = [slow_log EXCEPT
                   !.enumerations = @ + 1,
                   !.tick_enumerated = TRUE,
                   !.last_enum = Some([at    |-> clock,
                                       since |-> IF IsSome(slow_log.last_enum)
                                                 THEN Unwrap(slow_log.last_enum).at
                                                 ELSE 0])]
       ELSE /\ lpc' = "reuse_lock"
            /\ UNCHANGED <<last_slow_update, slow_log>>
    /\ UNCHANGED <<clock, refresh, last_update, guard, vms_jails, state_vms_jails>>
    /\ UNCHANGED outsideSlow

\* main.rs 150-158: both collectors are invoked
CadenceEnumerate ==
    /\ lpc = "enumerate"
    /\ \E v \in VmLists, j \in JailLists : vms_jails' = Some(<<v, j>>)
    /\ \E d \in CollectTimes :
          /\ clock + d <= MaxMillis
          /\ clock' = clock + d
    /\ slow_log' = [slow_log EXCEPT !.tick_invoked = TRUE]
    /\ lpc' = "update_lock"
    /\ UNCHANGED <<refresh, last_update, last_slow_update, guard, state_vms_jails>>
    /\ UNCHANGED outsideSlow

\* main.rs 161: app_state.lock()
CadenceReuseLock ==
    /\ lpc = "reuse_lock"
    /\ guard = "none"
    /\ guard' = "sampler"
    /\ lpc' = "reuse"
    /\ UNCHANGED <<clock, refresh, last_update, last_slow_update, vms_jails,
                   state_vms_jails, slow_log>>
    /\ UNCHANGED outsideSlow

\* main.rs 162-163: clone state.vms and state.jails, drop the guard
CadenceReuse ==
    /\ lpc = "reuse"
    /\ vms_jails' = Some(state_vms_jails)
    /\ guard' = "none"
    /\ lpc' = "update_lock"
    /\ UNCHANGED <<clock, refresh, last_update, last_slow_update,
                   state_vms_jails, slow_log>>
    /\ UNCHANGED outsideSlow

\* main.rs 167: app_state.lock()
CadenceUpdateLock ==
    /\ lpc = "update_lock"
    /\ guard = "none"
    /\ guard' = "sampler"
    /\ lpc' = "update"
    /\ UNCHANGED <<clock, refresh, last_update, last_slow_update, vms_jails,
                   state_vms_jails, slow_log>>
    /\ UNCHANGED outsideSlow

\* main.rs 168-170 and state.rs 277-278: self.vms = vms; self.jails = jails;
\* the guard is dropped
CadenceUpdate ==
    /\ lpc = "update"
    /\ state_vms_jails' = Unwrap(vms_jails)
    /\ vms_jails' = None
    /\ guard' = "none"
    /\ slow_log' = [slow_log EXCEPT
           !.last_write = Some([enumerated |-> slow_log.tick_enumerated,
                                before     |-> state_vms_jails,
                                after      |-> Unwrap(vms_jails)])]
    /\ lpc' = "sleep"
    /\ UNCHANGED <<clock, refresh, last_update, last_slow_update>>
    /\ UNCHANGED outsideSlow

\* main.rs 174: thread::sleep(50 ms)
CadenceSleep ==
    /\ lpc = "sleep"
    /\ \E d \in SleepTimes :
          /\ clock + d <= MaxMillis
          /\ clock' = clock + d
    /\ lpc' = "top"
    /\ UNCHANGED <<refresh, last_update, last_slow_update, guard, vms_jails,
                   state_vms_jails, slow_log>>
    /\ UNCHANGED outsideSlow

\* app.rs 50, 56, 142, 204: the TUI thread takes the lock
CadenceTuiLock ==
    /\ guard = "none"
    /\ guard' = "tui"
    /\ UNCHANGED <<clock, refresh, last_update, last_slow_update, lpc,
                   vms_jails, state_vms_jails, slow_log>>
    /\ UNCHANGED outsideSlow

\* app.rs 51-52, 57-58, 143-147, 205-206: under the lock the TUI thread
\* calls set_terminal_width, clone or quit, none of which assigns vms or
\* jails, and drops the guard
CadenceTuiUnlock ==
    /\ guard = "tui"
    /\ guard' = "none"
    /\ UNCHANGED <<clock, refresh, last_update, last_slow_update, lpc,
                   vms_jails, state_vms_jails, slow_log>>
    /\ UNCHANGED outsideSlow

NextSlow ==
    \/ CadenceTop \/ CadenceCollect \/ CadenceCheck \/ CadenceEnumerate
    \/ CadenceReuseLock \/ CadenceReuse \/ CadenceUpdateLock \/ CadenceUpdate
    \/ CadenceSleep \/ CadenceTuiLock \/ CadenceTuiUnlock

SpecSlow == InitSlow /\ [][NextSlow]_vars

-----------------------------------------------------------------------------
(* Properties of the slow cadence *)

\* C21: an enumeration of VMs and jails runs only when at least
\* max(8 x refresh, 2000) ms have elapsed since the previous enumeration, or
\* since the loop was entered when there was none; a tick in which the two
\* collectors are invoked is such a tick; and a tick that does not enumerate
\* writes to the shared state the vms and jails the shared state already
\* holds.
C21_SlowCadence ==
    /\ IsSome(slow_log.last_enum) =>
          LET e == Unwrap(slow_log.last_enum) IN
          /\ e.at - e.since >= 8 * refresh
          /\ e.at - e.since >= 2000
    /\ slow_log.tick_invoked => slow_log.tick_enumerated
    /\ IsSome(slow_log.last_write) =>
          LET w == Unwrap(slow_log.last_write) IN
          ~w.enumerated => w.after = w.before

\* A second enumeration has found VMs, and a later tick that did not
\* enumerate has written them again.
C21_Witness ==
    /\ slow_log.enumerations = 2
    /\ Unwrap(slow_log.last_enum).since > 0
    /\ IsSome(slow_log.last_write)
    /\ ~Unwrap(slow_log.last_write).enumerated
    /\ Unwrap(slow_log.last_write).after = <<<<"vm1", "vm0">>, <<"jail0">>>>

-----------------------------------------------------------------------------
(* MultipathCollector::parse_gmultipath_output (multipath.rs 73-186).       *)
(* A line of the report is modelled after trim() by the first of the        *)
(* parser's tests it passes, in the parser's order, and the text that test  *)
(* extracts: "geom" (strip_prefix "Geom name: "), "state" (strip_prefix     *)
(* "State: "), "consumers", "providers", "name" (find "Name: ").            *)

\* Longest report
MaxLines == 5

Line(kind, arg) == [kind |-> kind, arg |-> arg]

ReportLines ==
    {Line("geom", "A"), Line("geom", "B"),
     Line("state", "OPTIMAL"), Line("state", "DEGRADED"), Line("state", "ACTIVE"),
     Line("consumers", ""), Line("providers", ""),
     Line("name", "da0"), Line("name", "da1")}

Reports == UNION {[1..n -> ReportLines] : n \in 0..MaxLines}

\* multipath.rs 98: format!("multipath/{}", geom_name)
FormatMultipath(geom_name) ==
    CASE geom_name = "A" -> "multipath/A"
      [] geom_name = "B" -> "multipath/B"

\* multipath.rs 121-126: the match on state_str
ParseState(state_str) ==
    CASE state_str = "OPTIMAL"  -> "Optimal"
      [] state_str = "DEGRADED" -> "Degraded"
      [] state_str = "FAILED"   -> "Failed"
      [] OTHER                  -> "Unknown"

\* multipath.rs 74-80: the locals before the first line
ParserStart ==
    [multipath_devices       |-> EmptyMap,
     current_geom            |-> None,
     current_state           |-> "Unknown",
     current_paths           |-> <<>>,
     in_consumers            |-> FALSE,
     current_consumer_name   |-> None,
     current_consumer_active |-> FALSE]

\* multipath.rs 90-96 and 165-171: the pending consumer is dropped
WithPending_Dropped(p) == p.current_paths

\* multipath.rs 90-96 and 165-171: "Add last consumer if pending"
WithPending(p) ==
    IF IsSome(p.current_consumer_name)
    THEN Append(p.current_paths,
                PathInfo(Unwrap(p.current_consumer_name), p.current_consumer_active))
    ELSE p.current_paths

\* multipath.rs 97-108 and 173-182: insert the group that is in progress
InsertGeom(p) ==
    LET mp_name == FormatMultipath(Unwrap(p.current_geom)) IN
    MapInsert(p.multipath_devices, mp_name,
              MultipathInfo(mp_name, Unwrap(p.current_geom), p.current_state,
                            WithPending(p)))

\* multipath.rs 86-115: a "Geom name: " line
GeomLine(p, name) ==
    [p EXCEPT !.multipath_devices = IF IsSome(p.current_geom) THEN InsertGeom(p) ELSE @,
              !.current_paths = IF IsSome(p.current_geom) THEN <<>> ELSE @,
              !.current_geom = Some(name),
              !.current_state = "Unknown",
              !.in_consumers = FALSE,
              !.current_consumer_name = None]

\* multipath.rs 117-137: a "State: " line
StateLine(p, state_str) ==
    IF ~p.in_consumers
    THEN [p EXCEPT !.current_state = ParseState(state_str)]
    ELSE IF IsSome(p.current_consumer_name)
    THEN [p EXCEPT !.current_consumer_active = (state_str = "ACTIVE"),
                   !.current_paths =
                       Append(@, PathInfo(Unwrap(p.current_consumer_name),
                                          state_str = "ACTIVE")),
                   !.current_consumer_name = None]
    ELSE p

\* multipath.rs 147-160: a line holding "Name: "
NameLine(p, rest) ==
    IF p.in_consumers
    THEN [p EXCEPT !.current_paths = WithPending(p),
                   !.current_consumer_name = Some(rest),
                   !.current_consumer_active = FALSE]
    ELSE p

\* multipath.rs 82-161: the body of the loop for one line
ParseLine(p, line) ==
    CASE line.kind = "geom"      -> GeomLine(p, line.arg)
      [] line.kind = "state"     -> StateLine(p, line.arg)
      [] line.kind = "consumers" -> [p EXCEPT !.in_consumers = TRUE]
      [] line.kind = "providers" -> [p EXCEPT !.in_consumers = FALSE]
      [] line.kind = "name"      -> NameLine(p, line.arg)
      [] OTHER                   -> p

\* multipath.rs 82: for line in output.lines()
RECURSIVE ParseLines(_, _)
ParseLines(p, lines) ==
    IF lines = <<>> THEN p
    ELSE ParseLines(ParseLine(p, Head(lines)), Tail(lines))

\* parse_gmultipath_output(output): the loop, then "Save last geom"
parse_gmultipath_output(output) ==
    LET p == ParseLines(ParserStart, output) IN
    IF IsSome(p.current_geom) THEN InsertGeom(p) ELSE p.multipath_devices

InitParse ==
    /\ gm_output \in Reports
    /\ gm_parsed = None
    /\ InitSlowIdle
    /\ InitZpoolIdle
    /\ InitCorrIdle
    /\ InitGeomIdle
    /\ InitCacheIdle
    /\ InitSesIdle
    /\ InitStateIdle
    /\ InitMainIdle

\* parse_gmultipath_output(&output): the whole call
ParseGmultipath ==
    /\ gm_parsed = None
    /\ gm_parsed' = Some(parse_gmultipath_output(gm_output))
    /\ UNCHANGED gm_output
    /\ UNCHANGED outsideParse

NextParse == ParseGmultipath

SpecParse == InitParse /\ [][NextParse]_vars

-----------------------------------------------------------------------------
(* Properties of parse_gmultipath_output *)

\* The positions of the group headers of the report.
Headers == {i \in DOMAIN gm_output : gm_output[i].kind = "geom"}

DistinctHeaders ==
    \A i, j \in Headers : gm_output[i].arg = gm_output[j].arg => i = j

\* The header under which line i is listed (0: none).
HeaderOf(i) == SetMax({0} \cup {h \in Headers : h < i})

\* Where the group of header h ends: its next header, or the end of the report.
EndOf(h) == SetMin({Len(gm_output) + 1} \cup {j \in Headers : j > h})

\* The last section marker or header before line i (0: none).
MarkerBefore(i) ==
    SetMax({0} \cup {m \in 1..(i - 1) :
                       gm_output[m].kind \in {"geom", "consumers", "providers"}})

\* Line i is in the members (Consumers) section.
InMembers(i) ==
    MarkerBefore(i) > 0 /\ gm_output[MarkerBefore(i)].kind = "consumers"

\* Line i is in the downstream (Providers) section.
InProviders(i) ==
    MarkerBefore(i) > 0 /\ gm_output[MarkerBefore(i)].kind = "providers"

\* Line i names a member of a group and no state or name line follows it
\* before the group ends: the path is pending when the group is flushed.
PendingAtFlush(i) ==
    /\ gm_output[i].kind = "name"
    /\ InMembers(i)
    /\ HeaderOf(i) > 0
    /\ \A k \in (i + 1)..(EndOf(HeaderOf(i)) - 1) :
          gm_output[k].kind \notin {"state", "name"}

\* C22: for a report whose group headers have distinct names the result has
\* one entry for each header, keyed "multipath/<name>", the last group
\* included; and a member whose name line is still pending when the next
\* header or the end of the report arrives is among the paths of the group
\* it was listed under.
C22_EveryGroupFlushed ==
    IsSome(gm_parsed) /\ DistinctHeaders =>
        LET m == Unwrap(gm_parsed) IN
        /\ Cardinality(DOMAIN m) = Cardinality(Headers)
        /\ DOMAIN m = {FormatMultipath(gm_output[h].arg) : h \in Headers}
        /\ \A h \in Headers :
              /\ m[FormatMultipath(gm_output[h].arg)].name =
                    FormatMultipath(gm_output[h].arg)
              /\ m[FormatMultipath(gm_output[h].arg)].serial = gm_output[h].arg
        /\ \A i \in DOMAIN gm_output :
              PendingAtFlush(i) =>
                 \E q \in Range(m[FormatMultipath(gm_output[HeaderOf(i)].arg)].paths) :
                    q.device_name = gm_output[i].arg

\* Two groups: the first ends with a pending member when the second header
\* arrives, the second is the last group of the report.
C22_Witness ==
    /\ gm_output = <<Line("geom", "A"), Line("consumers", ""), Line("name", "da0"),
                     Line("geom", "B"), Line("state", "DEGRADED")>>
    /\ IsSome(gm_parsed)
    /\ DOMAIN Unwrap(gm_parsed) = {"multipath/A", "multipath/B"}
    /\ Unwrap(gm_parsed)["multipath/A"].paths = <<PathInfo("da0", FALSE)>>
    /\ Unwrap(gm_parsed)["multipath/B"].state = "Degraded"

\* C23 as stated: a group whose members section holds one member, its name
\* line and its state line in either order, has exactly one path, active
\* exactly when the state line says ACTIVE.
C23_AsStated ==
    IsSome(gm_parsed) /\ Len(gm_output) = 4
      /\ gm_output[1].kind = "geom" /\ gm_output[2].kind = "consumers"
      /\ {gm_output[3].kind, gm_output[4].kind} = {"name", "state"} =>
        LET nm == IF gm_output[3].kind = "name" THEN gm_output[3] ELSE gm_output[4]
            st == IF gm_output[3].kind = "state" THEN gm_output[3] ELSE gm_output[4]
        IN  Unwrap(gm_parsed)[FormatMultipath(gm_output[1].arg)].paths =
               <<PathInfo(nm.arg, st.arg = "ACTIVE")>>

\* The report without its line i.
WithoutLine(i) ==
    [k \in 1..(Len(gm_output) - 1) |-> IF k < i THEN gm_output[k] ELSE gm_output[k + 1]]

\* C24 as stated: a state line or name line of the Providers section is
\* ignored: the result is the one of the report without that line.
C24_AsStated ==
    IsSome(gm_parsed) =>
        \A i \in DOMAIN gm_output :
            gm_output[i].kind \in {"state", "name"} /\ InProviders(i) =>
                parse_gmultipath_output(WithoutLine(i)) = Unwrap(gm_parsed)

-----------------------------------------------------------------------------
(* ZfsCollector::parse_pool_status (zfs.rs 79-177).  A line of the report   *)
(* is the sequence of its whitespace-separated tokens; a prefix without     *)
(* whitespace is a prefix of the line after trim_start exactly when it is   *)
(* a prefix of the first token.                                             *)

\* Longest status report
MaxStatusLines == 4

\* The bytes of a token
SpellToken(t) ==
    CASE t = "config:"         -> <<99, 111, 110, 102, 105, 103, 58>>
      [] t = "errors:"         -> <<101, 114, 114, 111, 114, 115, 58>>
      [] t = "NAME"            -> <<78, 65, 77, 69>>
      [] t = "logs"            -> <<108, 111, 103, 115>>
      [] t = "cache"           -> <<99, 97, 99, 104, 101>>
      [] t = "spares"          -> <<115, 112, 97, 114, 101, 115>>
      [] t = "mirror-1"        -> <<109, 105, 114, 114, 111, 114, 45, 49>>
      [] t = "raidz2-0"        -> <<114, 97, 105, 100, 122, 50, 45, 48>>
      [] t = "multipath/A"     -> <<109, 117, 108, 116, 105, 112, 97, 116, 104, 47, 65>>
      [] t = "multipath/B"     -> <<109, 117, 108, 116, 105, 112, 97, 116, 104, 47, 66>>
      [] t = "multipath/Ap1"   -> <<109, 117, 108, 116, 105, 112, 97, 116, 104, 47, 65, 112, 49>>
      [] t = "multipath/Bp"    -> <<109, 117, 108, 116, 105, 112, 97, 116, 104, 47, 66, 112>>
      [] t = "da0"             -> <<100, 97, 48>>
      [] t = "tank"            -> <<116, 97, 110, 107>>
      [] t = "ca"              -> <<99, 97>>
      [] t = "raidz"           -> <<114, 97, 105, 100, 122>>
      [] t = "mirror"          -> <<109, 105, 114, 114, 111, 114>>
      [] t = "multipath/"      -> <<109, 117, 108, 116, 105, 112, 97, 116, 104, 47>>

\* The device names a key of the result can be
KeyNames == {"multipath/A", "multipath/B", "multipath/Ap1", "multipath/Bp"}

\* str::to_string of a slice of a device name
ToName(bytes) == CHOOSE n \in KeyNames : SpellToken(n) = bytes

\* str::starts_with on tokens
TokenStartsWith(t, prefix) ==
    LET n == SpellToken(t)
        p == SpellToken(prefix)
    IN  /\ Len(p) <= Len(n)
        /\ \A i \in 1..Len(p) : n[i] = p[i]

\* str::rfind(ch): the last position of the byte, None when absent
rfind(bytes, ch) ==
    LET at == {i \in DOMAIN bytes : bytes[i] = ch}
    IN  IF at = {} THEN None ELSE Some(SetMax(at))

\* char::is_ascii_digit
is_ascii_digit(b) == b \in 48..57

\* zfs.rs 152-163: base_name
base_name(device_name) ==
    LET bytes == SpellToken(device_name)
        idx   == rfind(bytes, 112)
    IN  IF IsSome(idx)
        THEN LET after_p == SubSeq(bytes, Unwrap(idx) + 1, Len(bytes)) IN
             IF \A k \in DOMAIN after_p : is_ascii_digit(after_p[k])
             THEN ToName(SubSeq(bytes, 1, Unwrap(idx) - 1))
             ELSE device_name
        ELSE device_name

\* Pool names
PoolNames == {"tank", "ca"}

\* Lines of "zpool status <pool>", as token sequences
StatusLines ==
    {<<"config:">>, <<"errors:">>, <<"NAME", "STATE">>,
     <<"logs">>, <<"cache">>, <<"spares">>,
     <<"mirror-1", "ONLINE">>, <<"raidz2-0", "ONLINE">>,
     <<"multipath/A", "ONLINE">>, <<"multipath/Ap1", "DEGRADED">>,
     <<"multipath/Bp", "AVAIL">>, <<"multipath/A">>, <<"da0", "ONLINE">>}

StatusReports == UNION {[1..n -> StatusLines] : n \in 0..MaxStatusLines}

\* zfs.rs 86-90: the locals before the first line; `stopped` is the break
PoolParserStart ==
    [drive_map |-> EmptyMap, current_role |-> "Data", current_vdev |-> "",
     in_config |-> FALSE, stopped |-> FALSE]

\* zfs.rs 113-124: a section header that leaves current_vdev alone
SectionLine_KeepVdev(z, role) == [z EXCEPT !.current_role = role]

\* zfs.rs 113-124: a logs, cache or spares header
SectionLine(z, role) == [z EXCEPT !.current_role = role, !.current_vdev = ""]

\* zfs.rs 127-174: a line that is no header: vdev line or device line
DeviceLine(z, pool, parts) ==
    IF Len(parts) < 2 THEN z
    ELSE IF TokenStartsWith(parts[1], "raidz") \/ TokenStartsWith(parts[1], "mirror")
    THEN [z EXCEPT !.current_vdev = parts[1]]
    ELSE IF ~TokenStartsWith(parts[1], "multipath/") THEN z
    ELSE [z EXCEPT !.drive_map =
             MapInsert(@, base_name(parts[1]),
                       ZfsDriveInfo(pool, z.current_vdev, z.current_role, parts[2]))]

\* zfs.rs 92-175: the body of the loop for one line
ParsePoolLine(z, pool, parts) ==
    IF z.stopped THEN z
    ELSE IF TokenStartsWith(parts[1], "config:") THEN [z EXCEPT !.in_config = TRUE]
    ELSE IF ~z.in_config THEN z
    ELSE IF TokenStartsWith(parts[1], "errors:") THEN [z EXCEPT !.stopped = TRUE]
    ELSE IF TokenStartsWith(parts[1], "NAME") \/ TokenStartsWith(parts[1], pool) THEN z
    ELSE IF parts[1] = "logs" THEN SectionLine(z, "Slog")
    ELSE IF parts[1] = "cache" THEN SectionLine(z, "Cache")
    ELSE IF parts[1] = "spares" THEN SectionLine(z, "Spare")
    ELSE DeviceLine(z, pool, parts)

\* zfs.rs 92: for line in stdout.lines()
RECURSIVE ParsePoolLines(_, _, _)
ParsePoolLines(z, pool, lines) ==
    IF lines = <<>> THEN z
    ELSE ParsePoolLines(ParsePoolLine(z, pool, Head(lines)), pool, Tail(lines))

\* parse_pool_status(pool) on the report the command printed
parse_pool_status(pool, stdout) == ParsePoolLines(PoolParserStart, pool, stdout).drive_map

InitZpool ==
    /\ zpool \in PoolNames
    /\ zpool_status \in StatusReports
    /\ pool_drives = None
    /\ InitSlowIdle
    /\ InitParseIdle
    /\ InitCorrIdle
    /\ InitGeomIdle
    /\ InitCacheIdle
    /\ InitSesIdle
    /\ InitStateIdle
    /\ InitMainIdle

\* parse_pool_status(&pool): the whole call, the command having succeeded
ParsePoolStatus ==
    /\ pool_drives = None
    /\ pool_drives' = Some(parse_pool_status(zpool, zpool_status))
    /\ UNCHANGED <<zpool, zpool_status>>
    /\ UNCHANGED outsideZpool

NextZpool == ParsePoolStatus

SpecZpool == InitZpool /\ [][NextZpool]_vars

-----------------------------------------------------------------------------
(* Properties of parse_pool_status *)

FirstToken(i) == zpool_status[i][1]

\* Line i is read as part of the configuration: it follows the first
\* config: line, no errors: line lies between the two, and it is not skipped
\* as a config:, errors: or header line (NAME, or the pool's own line).
InConfig(i) ==
    /\ \E c \in 1..(i - 1) :
          /\ FirstToken(c) = "config:"
          /\ \A b \in 1..(c - 1) : FirstToken(b) # "config:"
          /\ \A e \in (c + 1)..(i - 1) : FirstToken(e) # "errors:"
    /\ FirstToken(i) \notin {"config:", "errors:"}
    /\ ~TokenStartsWith(FirstToken(i), "NAME")
    /\ ~TokenStartsWith(FirstToken(i), zpool)

SectionHeader(i) == InConfig(i) /\ FirstToken(i) \in {"logs", "cache", "spares"}

GroupLine(i) ==
    /\ InConfig(i)
    /\ Len(zpool_status[i]) >= 2
    /\ FirstToken(i) \in {"mirror-1", "raidz2-0"}

\* A device line the parser retains.
Retained(i) ==
    /\ InConfig(i)
    /\ Len(zpool_status[i]) >= 2
    /\ FirstToken(i) \in KeyNames

\* The last retained line with the key of line i: the one whose entry stays.
LastWithKey(i) ==
    \A j \in (i + 1)..Len(zpool_status) :
        Retained(j) => base_name(FirstToken(j)) # base_name(FirstToken(i))

\* The last section header before line i (0: none).
SectionOf(i) == SetMax({0} \cup {s \in 1..(i - 1) : SectionHeader(s)})

\* The last group line before line i within its section (0: none).
GroupOf(i) == SetMax({0} \cup {g \in (SectionOf(i) + 1)..(i - 1) : GroupLine(g)})

RoleOfSection(s) ==
    CASE s = 0 -> "Data"
      [] s > 0 /\ FirstToken(s) = "logs" -> "Slog"
      [] s > 0 /\ FirstToken(s) = "cache" -> "Cache"
      [] s > 0 /\ FirstToken(s) = "spares" -> "Spare"

\* C25 as stated: a device line that follows a group line is recorded with
\* role Data and that group's label.
C25_AsStated ==
    IsSome(pool_drives) =>
        \A i \in DOMAIN zpool_status :
            Retained(i) /\ LastWithKey(i) /\ i > 1 /\ GroupLine(i - 1) =>
                LET d == Unwrap(pool_drives)[base_name(FirstToken(i))] IN
                /\ d.role = "Data"
                /\ d.vdev = FirstToken(i - 1)

\* C25: the role is the one of the last logs, cache or spares header read
\* before the device line, Data when there is none: a group line does not
\* change it.  The label is the last group line read after that header,
\* empty when there is none: a section header clears it.
C25_RoleOfSectionLabelOfGroup ==
    IsSome(pool_drives) =>
        \A i \in DOMAIN zpool_status :
            Retained(i) /\ LastWithKey(i) =>
                LET d == Unwrap(pool_drives)[base_name(FirstToken(i))] IN
                /\ d.role = RoleOfSection(SectionOf(i))
                /\ d.vdev = IF GroupOf(i) = 0 THEN "" ELSE FirstToken(GroupOf(i))
                /\ d.pool = zpool

\* A mirrored log: the device under the group line of the logs section
\* keeps the log role and carries the group's label.
C25_Witness ==
    /\ zpool = "tank"
    /\ zpool_status = <<<<"config:">>, <<"logs">>, <<"mirror-1", "ONLINE">>,
                        <<"multipath/A", "ONLINE">>>>
    /\ pool_drives = Some([k \in {"multipath/A"} |->
                              ZfsDriveInfo("tank", "mirror-1", "Slog", "ONLINE")])

\* The name without a trailing 'p' followed by one or more digits.
WithoutPartition(name) ==
    LET bytes == SpellToken(name)
        cuts  == {i \in DOMAIN bytes :
                    /\ bytes[i] = 112
                    /\ i < Len(bytes)
                    /\ \A k \in (i + 1)..Len(bytes) : bytes[k] \in 48..57}
    IN  IF cuts = {} THEN name ELSE ToName(SubSeq(bytes, 1, SetMin(cuts) - 1))

\* C26 as stated: the keys of the result are the names of the retained
\* device lines without their partition suffix, 'p' and one or more digits;
\* a name without such a suffix is a key as it is.
C26_AsStated ==
    IsSome(pool_drives) =>
        DOMAIN Unwrap(pool_drives) =
            {WithoutPartition(FirstToken(i)) : i \in {j \in DOMAIN zpool_status : Retained(j)}}

-----------------------------------------------------------------------------
(* The sampling pipeline of main(): the slot map collected once before the  *)
(* loop (main.rs 42-53), then per tick GeomCollector::collect and correlate *)
(* on its output (main.rs 79-107).                                          *)

\* What the one enclosure reports when it is scanned; the bays are filled
\* and emptied while the program runs.
PipelineScans ==
    { [ok |-> FALSE, elements |-> <<>>],
      [ok |-> TRUE, elements |-> <<Element(4, ELMTYP_DEVICE, <<"nda0">>)>>],
      [ok |-> TRUE, elements |-> <<Element(4, ELMTYP_DEVICE, <<"nda0">>),
                                   Element(5, ELMTYP_DEVICE, <<"da0">>)>>],
      [ok |-> TRUE, elements |-> <<Element(6, ELMTYP_DEVICE, <<"nda0">>),
                                   Element(4, ELMTYP_DEVICE, <<"da0">>)>>] }

\* What multipath_collector.collect() returns in a tick.
PipelineGroups ==
    { EmptyMap,
      [g \in {"multipath/A"} |->
          MultipathInfo(g, SerialOf(g), "Optimal",
                        <<PathInfo("da0", TRUE), PathInfo("da1", FALSE)>>)],
      [g \in {"multipath/A", "multipath/B"} |->
          MultipathInfo(g, SerialOf(g), "Optimal",
                        IF g = "multipath/A" THEN <<PathInfo("da0", TRUE)>>
                                             ELSE <<PathInfo("nda0", TRUE)>>)] }

\* main() before line 42.
InitPipeline ==
    /\ InitGeomIdle
    /\ physical_disks = <<>>
    /\ multipath_info = EmptyMap
    /\ ses_info = EmptyMap
    /\ zfs_info = EmptyMap
    /\ multipath_devices = <<>>
    /\ standalone_disks = <<>>
    /\ unclaimed = EmptyMap
    /\ cpc = "startup"
    /\ \/ ses_devices = None /\ ses_scans = EmptyMap
       \/ /\ ses_devices = Some(<<DevPath("ses0")>>)
          /\ ses_scans \in [{DevPath("ses0")} -> PipelineScans]
    /\ ses_slot_map = None
    /\ InitCacheIdle
    /\ InitStateIdle
    /\ InitMainIdle
    /\ InitTailIdle

\* main.rs 42-53: ses_collector.collect() once; an error gives the empty map
PipelineSes ==
    /\ cpc = "startup"
    /\ \E r \in {ses_collect(ses_devices, ses_scans)} :
          /\ ses_slot_map' = Some(r)
          /\ ses_info' = IF r.ok THEN r.map ELSE EmptyMap
    /\ cpc' = "idle"
    /\ UNCHANGED <<physical_disks, multipath_info, zfs_info, multipath_devices,
                   standalone_disks, unclaimed>>
    /\ UNCHANGED <<ses_devices, ses_scans>>
    /\ UNCHANGED <<geomVars, cacheVars, stateVars, mainVars, tailVars>>

\* The enclosure while the program runs: a disk is inserted, pulled or moved.
EnclosureChange ==
    /\ IsSome(ses_devices)
    /\ ses_scans' \in [{DevPath("ses0")} -> PipelineScans]
    /\ ses_scans' # ses_scans
    /\ UNCHANGED <<ses_devices, ses_slot_map>>
    /\ UNCHANGED <<corrVars, geomVars, cacheVars, stateVars, mainVars, tailVars>>

\* main.rs 79-85: geom_collector.collect(), the first call of a tick
PipelineCollect ==
    /\ cpc = "idle"
    /\ geom_result = None
    /\ \/ GeomCollect
       \/ GeomCollectFail

\* main.rs 86-107: the disks collect() returned, the groups of the tick and
\* ses_info.clone() go to correlate; an error of collect() was `continue`
PipelineCorrelate ==
    /\ cpc = "idle"
    /\ IsSome(geom_result)
    /\ Unwrap(geom_result).ok
    /\ physical_disks' = Unwrap(geom_result).disks
    /\ \E mp \in PipelineGroups :
         /\ multipath_info' = mp
         /\ \E order \in Perms(DOMAIN mp) :
              \E g \in {ProcessGroups(order, mp,
                                      BuildDiskMap(Unwrap(geom_result).disks,
                                                   ses_info, EmptyMap),
                                      ses_info, zfs_info, <<>>)} :
                /\ multipath_devices' = SortDevices(g.devices)
                /\ unclaimed' = g.disk_map
                /\ \E diskOrder \in Perms(DOMAIN g.disk_map) :
                     \E identOrder \in Perms(IdentsOf(g.disk_map)) :
                       standalone_disks' =
                           deduplicate_by_wwn(g.disk_map, diskOrder, identOrder)
    /\ cpc' = "done"
    /\ UNCHANGED <<ses_info, zfs_info>>
    /\ UNCHANGED <<geomVars, laterVars>>

\* main.rs 83 and 171-175: the tick ends, after correlate or by `continue`
\* when collect() failed; its locals are dropped
PipelineTickEnd ==
    /\ \/ cpc = "done"
       \/ cpc = "idle" /\ IsSome(geom_result) /\ ~Unwrap(geom_result).ok
    /\ cpc' = "idle"
    /\ physical_disks' = <<>>
    /\ multipath_info' = EmptyMap
    /\ multipath_devices' = <<>>
    /\ standalone_disks' = <<>>
    /\ unclaimed' = EmptyMap
    /\ geom_result' = None
    /\ geom_taken' = None
    /\ geom_baseline' = None
    /\ UNCHANGED <<ses_info, zfs_info, previous_snapshot>>
    /\ UNCHANGED laterVars

NextPipeline ==
    \/ PipelineSes \/ EnclosureChange \/ PipelineCollect \/ PipelineCorrelate
    \/ PipelineTickEnd

SpecPipeline == InitPipeline /\ [][NextPipeline]_vars

-----------------------------------------------------------------------------
(* Properties of the sampling pipeline *)

DeviceNames == {multipath_devices[i].name : i \in DOMAIN multipath_devices}

\* C27 as stated: no name is in both output lists of a tick.
C27_AsStated ==
    Done => DeviceNames \cap StandaloneNames = {}

\* C28: every disk GeomCollector::collect hands to correlate has no
\* identifier, no unclaimed disk has one, and the standalone list holds
\* every unclaimed disk name exactly once: identifier deduplication removes
\* nothing.
C28_NothingDeduplicated ==
    Done =>
        /\ \A i \in DOMAIN physical_disks : physical_disks[i].ident = None
        /\ \A n \in DOMAIN unclaimed : unclaimed[n].ident = None
        /\ StandaloneNames = DOMAIN unclaimed
        /\ Len(standalone_disks) = Cardinality(DOMAIN unclaimed)
        /\ \A n \in InputNames :
              (\A g \in DOMAIN multipath_info : n \notin Declared(g)) =>
                 Cardinality({i \in DOMAIN standalone_disks :
                                 standalone_disks[i].device_name = n}) = 1

\* No group declares da0 or nda0, and both are standalone disks.
C28_Witness ==
    /\ Done
    /\ {"da0", "nda0"} \subseteq DOMAIN unclaimed
    /\ {"da0", "nda0"} \subseteq StandaloneNames
    /\ Len(standalone_disks) = Cardinality(DOMAIN unclaimed)

\* The slot map main() holds: what the one collect() call before the loop
\* returned, empty when it failed.
StartupMap ==
    IF IsSome(ses_slot_map) /\ Unwrap(ses_slot_map).ok
    THEN Unwrap(ses_slot_map).map
    ELSE EmptyMap

\* What a scan of the enclosure would report now.
ScanNow == ses_collect(ses_devices, ses_scans)

\* C30: the slot map is collected once, before the first tick, and is not
\* collected again or changed afterwards, whatever the enclosure reports by
\* then; the map given to correlate in every tick is that startup map; a
\* standalone disk has the slot the startup map records for its name and no
\* slot when the startup map does not hold its name; a group's slot is one
\* the startup map records for one of its declared paths.
C30_SlotMapCollectedOnce ==
    /\ [][cpc # "startup" => ses_info' = ses_info /\ ses_slot_map' = ses_slot_map]_vars
    /\ [](cpc = "startup" => ses_slot_map = None /\ physical_disks = <<>>)
    /\ [](cpc # "startup" => IsSome(ses_slot_map) /\ ses_info = StartupMap)
    /\ [](Done =>
            /\ \A i \in DOMAIN standalone_disks :
                 standalone_disks[i].slot =
                    IF standalone_disks[i].device_name \in DOMAIN StartupMap
                    THEN Some(StartupMap[standalone_disks[i].device_name].slot)
                    ELSE None
            /\ \A i \in DOMAIN multipath_devices :
                 IsSome(multipath_devices[i].slot) =>
                    \E n \in Declared(multipath_devices[i].name) \cap DOMAIN StartupMap :
                       StartupMap[n].slot = Unwrap(multipath_devices[i].slot))

\* da0 was put into a bay after startup: a scan would now report it, the
\* startup map does not hold it, and the tick lists da0 without a slot and
\* nda0 with the slot recorded at startup, which the enclosure no longer
\* reports for it.
C30_Witness ==
    /\ Done
    /\ "da0" \notin DOMAIN ses_info
    /\ ScanNow.ok
    /\ "da0" \in DOMAIN ScanNow.map
    /\ ScanNow.map["nda0"].slot = 6
    /\ \E i \in DOMAIN standalone_disks :
          /\ standalone_disks[i].device_name = "da0"
          /\ standalone_disks[i].slot = None
    /\ \E i \in DOMAIN standalone_disks :
          /\ standalone_disks[i].device_name = "nda0"
          /\ standalone_disks[i].slot = Some(4)

-----------------------------------------------------------------------------
(* Determinism of correlate *)

\* One fixed order of visiting the keys S of a HashMap.
FixedOrder(S) == CHOOSE o \in Perms(S) : TRUE

\* What the invocation returns that visits multipath_info, disk_map and
\* ident_groups in the fixed order.
FixedOrderResult ==
    LET g == ProcessGroups(FixedOrder(DOMAIN multipath_info), multipath_info,
                           BuildDiskMap(physical_disks, ses_info, EmptyMap),
                           ses_info, zfs_info, <<>>)
    IN  [devices    |-> SortDevices(g.devices),
         standalone |-> deduplicate_by_wwn(g.disk_map, FixedOrder(DOMAIN g.disk_map),
                                           FixedOrder(IdentsOf(g.disk_map)))]

\* C29 as stated: every invocation on the same arguments returns the same
\* two sequences, those of the invocation that visits its HashMaps in the
\* fixed order.
C29_AsStated ==
    Done =>
        /\ multipath_devices = FixedOrderResult.devices
        /\ standalone_disks = FixedOrderResult.standalone

====
